---- MODULE Spec2Model ----
(***************************************************************************)
(* Obsync: per-file version history (checkpoint + diff log, snapshot       *)
(* daemon) and the server side of the cloud reconciliation protocol.       *)
(*                                                                         *)
(* Spec        the local version storage engine (HistoryService over the   *)
(*             version store), one action per handler.                     *)
(* SpecAsync   the same engine on the event loop: save() and the snapshot  *)
(*             daemon run from one await to the next.                      *)
(* SpecServer  the server's upload handler (syncVersions) over a store     *)
(*             that holds two users, their devices and their vaults.       *)
(* SpecNotes   the saves, deletions and renames of the vault over two      *)
(*             notes.                                                      *)
(* SpecClient  one uploader (SyncService.sync) against the upload route;   *)
(*             SpecClientFair adds that its sync passes recur.             *)
(* SpecVault   ensureVaultExists of three devices of one user against the  *)
(*             routes of the app.                                          *)
(* SpecHttp    requests to the authenticated routes through the Hono app:  *)
(*             authMiddleware, the route handlers, app.onError.            *)
(* SpecAuth    the client's makeAuthenticatedRequest (refresh on 401) and  *)
(*             the device-authorization poll; SpecAuthFair adds that every *)
(*             request is answered.                                        *)
(* SpecInterval the interval-checkpoint HistoryService of src/src, whose   *)
(*             versions are numbered per file.                             *)
(*                                                                         *)
(* Representation:                                                         *)
(*   - a nullable timestamp is a tuple: <<>> is null, <<t>> is t;          *)
(*   - the `data` column is a tuple: <<c>> is the full text c, and         *)
(*     <<"@", a, b>> is the serialized patch that turns text a into b;     *)
(*   - a query that SQL leaves open (LIMIT 1 or ORDER BY over rows with    *)
(*     equal created_at) yields the set of rows / orders it may return.    *)
(***************************************************************************)
EXTENDS Integers, Sequences, FiniteSets, TLC

\* ------------------------------------------------------------------------
\* Bounds of the model
\* ------------------------------------------------------------------------
MaxClock == 3
MaxVersions == 5

Paths == {"p1", "p2"}
Contents == {"a", "b"}

Null == <<>>

VARIABLES
    clock,      \* the wall clock read by Date.now()
    files,      \* table files of the local store (in memory)
    versions,   \* table versions of the local store (in memory)
    disk,       \* the durable image written by the last db.save()
    last,       \* history: the last handler that ran, its arguments, its outcome
    saved,      \* history: (file, created_at, content) of every version save() inserted
    daemonCp,   \* history: file id -> id of the newest daemon checkpoint (0: none)
    tasks       \* the calls of save() and runSnapshotDaemon() suspended at an await

localVars == <<clock, files, versions, disk, last, saved, daemonCp>>

VARIABLES
    sVaults,    \* server table vaults
    sDevices,   \* server table devices
    sFiles,     \* server table files
    sVersions,  \* server table versions
    sUploaded   \* history: version id, user and vault of every version an upload wrote

serverVars == <<sVaults, sDevices, sFiles, sVersions, sUploaded>>

VARIABLES
    cVersions,  \* uploader: its version rows, by id, as it serializes them
    cUnsynced,  \* uploader: ids of the version rows not marked as synced
    cLast       \* history: the last upload of the uploader and the response

clientVars == <<cVersions, cUnsynced, cLast>>

VARIABLES
    hLast       \* history: the last HTTP request the server answered, and the answer

httpVars == <<hLast>>

VARIABLES
    cAuth,      \* SyncService: the credentials in settings, and the call of
                \* makeAuthenticatedRequest that is in progress
    cPoll       \* SyncService: pollingInterval and the poll iterations in flight,
                \* with those among them that were started before the last
                \* stop() or startTokenPolling

authVars == <<cAuth, cPoll>>

VARIABLES
    iFiles,     \* interval-checkpoint store (src/src): table files
    iVersions,  \* interval-checkpoint store: table versions, keyed by version_num
    iInterval,  \* HistoryService.checkpointInterval
    iSaved      \* history: content and interval of the save() behind each version

intervalVars == <<iFiles, iVersions, iInterval, iSaved>>

VARIABLES
    dVault      \* SyncService of each device: settings.vaultId and the call of
                \* ensureVaultExists that is in progress

vaultVars == <<dVault>>

vars == <<localVars, serverVars, tasks, clientVars, httpVars, authVars, intervalVars, vaultVars>>

\* ------------------------------------------------------------------------
\* Helpers
\* ------------------------------------------------------------------------
MaxOf(S) == CHOOSE x \in S : \A y \in S : y <= x

\* ------------------------------------------------------------------------
\* Version store (queries keyed by created_at)
\* ------------------------------------------------------------------------
getFileByPath(fs, path) == {f \in fs : f.path = path}

getFileById(fs, id) == {f \in fs : f.id = id}

insertFile(fs, file) == fs \cup {file}

\* UPDATE files SET <the fields present in updates> WHERE id = ?
updateFile(fs, id, updates) ==
    {IF f.id = id
        THEN [k \in DOMAIN f |-> IF k \in DOMAIN updates THEN updates[k] ELSE f[k]]
        ELSE f : f \in fs}

\* files.path is UNIQUE: an UPDATE that would give two rows one path throws
PathTaken(fs, id, path) == \E f \in fs : f.path = path /\ f.id # id

VersionsOf(vs, fileId) == {v \in vs : v.file_id = fileId}

\* ORDER BY created_at DESC LIMIT 1: any row with the greatest created_at
getLatestVersion(vs, fileId) ==
    {v \in VersionsOf(vs, fileId) :
        \A w \in VersionsOf(vs, fileId) : w.created_at <= v.created_at}

\* (a query that takes only the checkpoints before the timestamp)
getNearestCheckpoint_Before(vs, fileId, beforeTimestamp) ==
    LET cps == {v \in VersionsOf(vs, fileId) :
                    v.is_checkpoint /\ v.created_at < beforeTimestamp}
    IN  {v \in cps : \A w \in cps : w.created_at <= v.created_at}

\* created_at <= ? AND is_checkpoint = 1 ORDER BY created_at DESC LIMIT 1
getNearestCheckpoint(vs, fileId, beforeTimestamp) ==
    LET cps == {v \in VersionsOf(vs, fileId) :
                    v.is_checkpoint /\ v.created_at <= beforeTimestamp}
    IN  {v \in cps : \A w \in cps : w.created_at <= v.created_at}

\* (a range that starts at the timestamp it is given less one)
getVersionsInRange_Inclusive(vs, fileId, fromTimestamp, toTimestamp) ==
    {v \in VersionsOf(vs, fileId) :
        fromTimestamp - 1 <= v.created_at /\ v.created_at <= toTimestamp}

\* created_at >= ? AND created_at <= ? (ORDER BY created_at ASC is applied by
\* the consumer, ApplyRange)
getVersionsInRange(vs, fileId, fromTimestamp, toTimestamp) ==
    {v \in VersionsOf(vs, fileId) :
        fromTimestamp <= v.created_at /\ v.created_at <= toTimestamp}

\* (a store that keys a version by file and timestamp would replace the row)
insertVersion_Replace(vs, version) ==
    {v \in vs : ~(v.file_id = version.file_id /\ v.created_at = version.created_at)}
        \cup {version}

insertVersion(vs, version) == vs \cup {version}

\* The first version ever written for a file (ids are handed out in order)
FirstEver(vs, fileId) ==
    {v \in VersionsOf(vs, fileId) : \A w \in VersionsOf(vs, fileId) : v.id <= w.id}

\* deletes every checkpoint row of the file except the first-ever and keepId
deleteNonFirstCheckpoints(vs, fileId, keepId) ==
    {v \in vs : ~(/\ v.file_id = fileId
                  /\ v.is_checkpoint
                  /\ v.id # keepId
                  /\ v \notin FirstEver(vs, fileId))}

NewFileId(fs) == IF fs = {} THEN 1 ELSE MaxOf({f.id : f \in fs}) + 1
NewVersionId(vs) == IF vs = {} THEN 1 ELSE MaxOf({v.id : v \in vs}) + 1

\* ------------------------------------------------------------------------
\* Patch codec (diff-match-patch), exact on the text the patch was made from
\* ------------------------------------------------------------------------
patch_make(text1, text2) == [from |-> text1, to |-> text2]
patch_toText(patches) == <<"@", patches.from, patches.to>>
patch_fromText(data) == [from |-> data[2], to |-> data[3]]
\* a patch whose context does not match leaves the text as it is
patch_apply(patches, text) == IF text = patches.from THEN patches.to ELSE text

\* ------------------------------------------------------------------------
\* Reconstruction
\* ------------------------------------------------------------------------
\* the fold of reconstructVersion over the fetched range, oldest first
RECURSIVE ApplyRange(_, _)
ApplyRange(content, rows) ==
    IF rows = {} THEN {content}
    ELSE LET oldest == {r \in rows : \A w \in rows : r.created_at <= w.created_at}
         IN  UNION {ApplyRange(IF ~r.is_checkpoint
                                  THEN patch_apply(patch_fromText(r.data), content)
                                  ELSE r.data[1],
                               rows \ {r}) : r \in oldest}

\* the contents reconstructVersion may return; {} when it throws
reconstructVersion(vs, fileId, targetTimestamp) ==
    UNION {IF checkpoint.created_at < targetTimestamp
              THEN ApplyRange(checkpoint.data[1],
                              getVersionsInRange(vs, fileId,
                                  checkpoint.created_at + 1, targetTimestamp))
              ELSE {checkpoint.data[1]}
           : checkpoint \in getNearestCheckpoint(vs, fileId, targetTimestamp)}

\* HistoryService.hasChanged(filePath, content): the answers it may give
\* (it runs queries only)
hasChanged(fs, vs, filePath, content) ==
    LET found == getFileByPath(fs, filePath)
        file == CHOOSE f \in found : TRUE
    IN  IF found = {} THEN {TRUE}
        ELSE IF getLatestVersion(vs, file.id) = {} THEN {TRUE}
        ELSE UNION {{content # lastContent
                     : lastContent \in reconstructVersion(vs, file.id,
                                                          latestVersion.created_at)}
                    : latestVersion \in getLatestVersion(vs, file.id)}

\* ------------------------------------------------------------------------
\* Local engine: handlers
\* ------------------------------------------------------------------------
FileIds == 1..Cardinality(Paths)

LastOp(op, path, content, ts, out) ==
    [op |-> op, path |-> path, content |-> content, ts |-> ts, out |-> out]

Store(fs, vs) == [files |-> fs, versions |-> vs]

\* save: the is_checkpoint flag of the version it inserts
SaveIsCheckpoint_Never(isFirstVersion) == FALSE

SaveIsCheckpoint_Always(isFirstVersion) == TRUE

SaveIsCheckpoint(isFirstVersion) == isFirstVersion

\* save: "no actual change, skip"
NoChange_Ignored(previousContent, content) == FALSE

NoChange(previousContent, content) == previousContent = content

\* save: a record that was marked as deleted is restored first
Undelete_Touch(fs, file, now) ==
    updateFile(fs, file.id, [deleted_at |-> Null, updated_at |-> now])

Undelete(fs, file, now) ==
    IF file.deleted_at # Null
       THEN updateFile(fs, file.id, [deleted_at |-> Null, updated_at |-> now])
       ELSE fs

\* HistoryService.save(filePath, content)
Save(filePath, content) ==
    LET now == clock
        found == getFileByPath(files, filePath)
        file == IF found = {}
                   THEN [id |-> NewFileId(files), path |-> filePath,
                         deleted_at |-> Null, created_at |-> now, updated_at |-> now]
                   ELSE CHOOSE f \in found : TRUE
        files1 == IF found = {} THEN insertFile(files, file)
                  ELSE Undelete(files, file, now)
        latest == getLatestVersion(versions, file.id)
        isFirstVersion == latest = {}
        Insert(data) ==
            LET version == [id |-> NewVersionId(versions), file_id |-> file.id,
                            is_checkpoint |-> SaveIsCheckpoint(isFirstVersion),
                            data |-> data,
                            created_at |-> now]
                vs2 == insertVersion(versions, version)
                fs2 == updateFile(files1, file.id, [updated_at |-> now])
            IN  /\ version.id <= MaxVersions
                /\ versions' = vs2
                /\ files' = fs2
                /\ disk' = Store(fs2, vs2)
                /\ saved' = saved \cup {[file_id |-> file.id, created_at |-> now,
                                          content |-> content]}
                /\ last' = LastOp("save", filePath, content, 0,
                                  IF isFirstVersion THEN "checkpoint" ELSE "diff")
        Leave(out) ==
            /\ files' = files1
            /\ last' = LastOp("save", filePath, content, 0, out)
            /\ UNCHANGED <<versions, disk, saved>>
    IN  /\ IF isFirstVersion
              THEN Insert(<<content>>)
              ELSE \E latestVersion \in latest :
                     LET outcomes == reconstructVersion(versions, file.id,
                                                        latestVersion.created_at)
                     IN  IF outcomes = {}
                            THEN Leave("error")
                            ELSE \E previousContent \in outcomes :
                                   IF NoChange(previousContent, content)
                                      THEN Leave("noop")
                                      ELSE Insert(patch_toText(
                                               patch_make(previousContent, content)))
        /\ UNCHANGED <<clock, daemonCp, serverVars, tasks, clientVars, httpVars, authVars, intervalVars, vaultVars>>

\* HistoryService.createSnapshotIfNeeded(fileId): the stores it may leave
createSnapshotIfNeeded(st, fileId, now) ==
    LET found == getFileById(st.files, fileId)
        same == [store |-> st, created |-> FALSE, thrown |-> FALSE]
    IN  IF found = {} \/ (\E f \in found : f.deleted_at # Null) THEN {same}
        ELSE LET latest == getLatestVersion(st.versions, fileId)
             IN  IF latest = {} THEN {same}
                 ELSE UNION {
                     IF latestVersion.is_checkpoint THEN {same}
                     ELSE LET outcomes == reconstructVersion(st.versions, fileId,
                                                  latestVersion.created_at)
                          IN  IF outcomes = {}
                                 THEN {[store |-> st, created |-> FALSE, thrown |-> TRUE]}
                                 ELSE {LET version == [id |-> NewVersionId(st.versions),
                                                       file_id |-> fileId,
                                                       is_checkpoint |-> TRUE,
                                                       data |-> <<content>>,
                                                       created_at |-> now]
                                           vs1 == insertVersion(st.versions, version)
                                           vs2 == deleteNonFirstCheckpoints(vs1, fileId,
                                                                            version.id)
                                       IN  [store |-> Store(updateFile(st.files, fileId,
                                                                [updated_at |-> now]), vs2),
                                            created |-> TRUE, thrown |-> FALSE]
                                       : content \in outcomes}
                     : latestVersion \in latest}

\* (a loop that passes over the live files and visits the deleted ones)
RECURSIVE runFiles_Deleted(_, _, _, _)
runFiles_Deleted(st, pending, snapshotsCreated, now) ==
    IF pending = {} THEN {[store |-> st, created |-> snapshotsCreated, thrown |-> FALSE]}
    ELSE LET file == CHOOSE f \in pending : \A g \in pending : f.id <= g.id
         IN  IF file.deleted_at = Null
                THEN runFiles_Deleted(st, pending \ {file}, snapshotsCreated, now)
                ELSE UNION {
                    IF r.thrown
                       THEN {[store |-> r.store, created |-> snapshotsCreated,
                              thrown |-> TRUE]}
                       ELSE runFiles_Deleted(r.store, pending \ {file},
                                     snapshotsCreated + (IF r.created THEN 1 ELSE 0), now)
                    : r \in createSnapshotIfNeeded(st, file.id, now)}

\* the loop of runSnapshotDaemon over getAllFiles(), in table order
RECURSIVE runFiles(_, _, _, _)
runFiles(st, pending, snapshotsCreated, now) ==
    IF pending = {} THEN {[store |-> st, created |-> snapshotsCreated, thrown |-> FALSE]}
    ELSE LET file == CHOOSE f \in pending : \A g \in pending : f.id <= g.id
         IN  IF file.deleted_at # Null
                THEN runFiles(st, pending \ {file}, snapshotsCreated, now)
                ELSE UNION {
                    IF r.thrown
                       THEN {[store |-> r.store, created |-> snapshotsCreated,
                              thrown |-> TRUE]}
                       ELSE runFiles(r.store, pending \ {file},
                                     snapshotsCreated + (IF r.created THEN 1 ELSE 0), now)
                    : r \in createSnapshotIfNeeded(st, file.id, now)}

\* ids of the checkpoints a pass inserted for a file
InsertedBy(before, after, fileId) ==
    {v.id : v \in VersionsOf(after, fileId) \ VersionsOf(before, fileId)}

\* HistoryService.runSnapshotDaemon()
RunSnapshotDaemon ==
    \E r \in runFiles(Store(files, versions), files, 0, clock) :
        /\ \A v \in r.store.versions : v.id <= MaxVersions
        /\ files' = r.store.files
        /\ versions' = r.store.versions
        /\ disk' = IF r.created > 0 /\ ~r.thrown THEN r.store ELSE disk
        /\ daemonCp' = [f \in FileIds |->
                           IF InsertedBy(versions, r.store.versions, f) = {}
                              THEN daemonCp[f]
                              ELSE MaxOf(InsertedBy(versions, r.store.versions, f))]
        /\ last' = LastOp("daemon", "", "", 0,
                          IF r.thrown THEN "error"
                          ELSE IF r.created > 0 THEN "created" ELSE "none")
        /\ UNCHANGED <<clock, saved, serverVars, tasks, clientVars, httpVars, authVars, intervalVars, vaultVars>>

\* (a markDeleted that stamps the record again when it is already deleted)
markDeleted_Again(fs, filePath, now) ==
    LET found == getFileByPath(fs, filePath)
    IN  IF found # {}
           THEN updateFile(fs, (CHOOSE f \in found : TRUE).id,
                           [deleted_at |-> <<now>>, updated_at |-> now])
           ELSE fs

\* HistoryService.markDeleted(filePath): the files table it leaves
markDeleted(fs, filePath, now) ==
    LET found == getFileByPath(fs, filePath)
    IN  IF \E f \in found : f.deleted_at = Null
           THEN updateFile(fs, (CHOOSE f \in found : TRUE).id,
                           [deleted_at |-> <<now>>, updated_at |-> now])
           ELSE fs

\* vault "delete" listener: HistoryService.markDeleted(path), then db.save()
MarkDeleted(filePath) ==
    LET fs1 == markDeleted(files, filePath, clock)
    IN  /\ files' = fs1
        /\ disk' = Store(fs1, versions)
        /\ last' = LastOp("delete", filePath, "", 0,
                          IF fs1 # files THEN "marked" ELSE "none")
        /\ UNCHANGED <<clock, versions, saved, daemonCp, serverVars, tasks, clientVars, httpVars, authVars, intervalVars, vaultVars>>

\* (a restore that leaves the record marked as deleted)
clearDeleted_Never(fs, file, now) == fs

\* restore: "Clear deleted_at if set"
clearDeleted(fs, file, now) ==
    IF file.deleted_at # Null
       THEN updateFile(fs, file.id, [deleted_at |-> Null, updated_at |-> now])
       ELSE fs

\* (a restore that clears deleted_at before it writes to the vault)
restoreFiles_Early(fs, file, now, written) == clearDeleted(fs, file, now)

\* restore: the files table it leaves. `await this.vault.modify` or
\* `await this.vault.create` comes before "Clear deleted_at if set", which
\* is not reached when the write rejects
restoreFiles(fs, file, now, written) ==
    IF written THEN clearDeleted(fs, file, now) ELSE fs

\* HistoryService.restore(filePath, targetTimestamp); `exists` is the vault's
\* answer to getAbstractFileByPath(filePath) instanceof TFile, `written`
\* whether the write to the vault resolved, and the content handed to the
\* vault is recorded in `last`
Restore(filePath, targetTimestamp) ==
    LET found == getFileByPath(files, filePath)
        Throw == /\ last' = LastOp("restore", filePath, "", targetTimestamp, "error")
                 /\ UNCHANGED files
    IN  /\ IF found = {} THEN Throw
           ELSE LET file == CHOOSE f \in found : TRUE
                    outcomes == reconstructVersion(versions, file.id, targetTimestamp)
                IN  IF outcomes = {} THEN Throw
                    ELSE \E content \in outcomes, exists \in BOOLEAN,
                            written \in BOOLEAN :
                           /\ files' = restoreFiles(files, file, clock, written)
                           /\ last' = LastOp("restore", filePath, content,
                                             targetTimestamp,
                                             IF ~written THEN "failed"
                                             ELSE IF exists THEN "modify"
                                             ELSE "create")
        /\ UNCHANGED <<clock, versions, disk, saved, daemonCp, serverVars, tasks, clientVars, httpVars, authVars, intervalVars, vaultVars>>

\* vault "rename" listener
Rename(oldPath, newPath) ==
    LET found == getFileByPath(files, oldPath)
    IN  /\ oldPath # newPath
        /\ IF found = {}
              THEN /\ last' = LastOp("rename", oldPath, newPath, 0, "untracked")
                   /\ UNCHANGED <<files, disk>>
              ELSE LET fileRecord == CHOOSE f \in found : TRUE
                   IN  IF PathTaken(files, fileRecord.id, newPath)
                          THEN /\ last' = LastOp("rename", oldPath, newPath, 0, "error")
                               /\ UNCHANGED <<files, disk>>
                          ELSE LET fs1 == updateFile(files, fileRecord.id,
                                              [path |-> newPath, updated_at |-> clock])
                               IN  /\ files' = fs1
                                   /\ disk' = Store(fs1, versions)
                                   /\ last' = LastOp("rename", oldPath, newPath, 0,
                                                     "renamed")
        /\ UNCHANGED <<clock, versions, saved, daemonCp, serverVars, tasks, clientVars, httpVars, authVars, intervalVars, vaultVars>>

\* Date.now() advances
Tick ==
    /\ clock < MaxClock
    /\ clock' = clock + 1
    /\ UNCHANGED <<files, versions, disk, last, saved, daemonCp, serverVars, tasks, clientVars, httpVars, authVars, intervalVars, vaultVars>>

InitLocal ==
    /\ clock = 1
    /\ files = {}
    /\ versions = {}
    /\ disk = Store({}, {})
    /\ last = LastOp("init", "", "", 0, "")
    /\ saved = {}
    /\ daemonCp = [f \in FileIds |-> 0]

\* ------------------------------------------------------------------------
\* Local engine on the event loop: a call runs to its next await, and other
\* calls may run before it is resumed
\* ------------------------------------------------------------------------
MaxTasks == 2

Slots == 1..MaxTasks

\* no call in the slot
NoTask ==
    [kind |-> "idle", pc |-> "", fileId |-> 0, content |-> "", now |-> 0,
     prev |-> "", pending |-> {}, created |-> 0, image |-> Store({}, {})]

\* DbService.save(): export() at once, the write of the image completes later
Flushing(kind, image) == [NoTask EXCEPT !.kind = kind, !.pc = "flush", !.image = image]

\* save(filePath, content) up to `await this.reconstructVersion(...)`, or up
\* to `await this.db.save()` when the version is the first one
SaveBegin(t, filePath, content) ==
    LET now == clock
        found == getFileByPath(files, filePath)
        file == IF found = {}
                   THEN [id |-> NewFileId(files), path |-> filePath,
                         deleted_at |-> Null, created_at |-> now, updated_at |-> now]
                   ELSE CHOOSE f \in found : TRUE
        files1 == IF found = {} THEN insertFile(files, file)
                  ELSE Undelete(files, file, now)
        latest == getLatestVersion(versions, file.id)
    IN  /\ tasks[t] = NoTask
        /\ IF latest = {}
              THEN LET version == [id |-> NewVersionId(versions), file_id |-> file.id,
                                   is_checkpoint |-> TRUE, data |-> <<content>>,
                                   created_at |-> now]
                       vs2 == insertVersion(versions, version)
                       fs2 == updateFile(files1, file.id, [updated_at |-> now])
                   IN  /\ version.id <= MaxVersions
                       /\ versions' = vs2
                       /\ files' = fs2
                       /\ tasks' = [tasks EXCEPT ![t] = Flushing("save", Store(fs2, vs2))]
              ELSE \E latestVersion \in latest :
                     LET outcomes == reconstructVersion(versions, file.id,
                                                        latestVersion.created_at)
                     IN  /\ files' = files1
                         /\ UNCHANGED versions
                         /\ IF outcomes = {}
                               THEN UNCHANGED tasks
                               ELSE \E previousContent \in outcomes :
                                      tasks' = [tasks EXCEPT ![t] =
                                          [NoTask EXCEPT !.kind = "save",
                                                         !.pc = "compare",
                                                         !.fileId = file.id,
                                                         !.content = content,
                                                         !.now = now,
                                                         !.prev = previousContent]]
        /\ UNCHANGED <<clock, disk, last, saved, daemonCp, serverVars, clientVars, httpVars, authVars, intervalVars, vaultVars>>

\* save() from the resolution of reconstructVersion to `await this.db.save()`
SaveResume(t) ==
    LET task == tasks[t]
        version == [id |-> NewVersionId(versions), file_id |-> task.fileId,
                    is_checkpoint |-> FALSE,
                    data |-> patch_toText(patch_make(task.prev, task.content)),
                    created_at |-> task.now]
        vs2 == insertVersion(versions, version)
        fs2 == updateFile(files, task.fileId, [updated_at |-> task.now])
    IN  /\ task.kind = "save" /\ task.pc = "compare"
        /\ IF NoChange(task.prev, task.content)
              THEN /\ tasks' = [tasks EXCEPT ![t] = NoTask]
                   /\ UNCHANGED <<files, versions>>
              ELSE /\ version.id <= MaxVersions
                   /\ versions' = vs2
                   /\ files' = fs2
                   /\ tasks' = [tasks EXCEPT ![t] = Flushing("save", Store(fs2, vs2))]
        /\ UNCHANGED <<clock, disk, last, saved, daemonCp, serverVars, clientVars, httpVars, authVars, intervalVars, vaultVars>>

\* the loop of runSnapshotDaemon from its current file up to the next
\* `await this.reconstructVersion(...)` in createSnapshotIfNeeded, or up to
\* `await this.db.save()` after the last file: the ways the pass may be
\* suspended (NoTask: it has returned or thrown)
RECURSIVE daemonLoop(_, _, _)
daemonLoop(st, pending, snapshotsCreated) ==
    IF pending = {}
       THEN {IF snapshotsCreated > 0 THEN Flushing("daemon", st) ELSE NoTask}
       ELSE LET file == CHOOSE f \in pending : \A g \in pending : f.id <= g.id
                rest == pending \ {file}
                found == getFileById(st.files, file.id)
                latest == getLatestVersion(st.versions, file.id)
            IN  IF \/ file.deleted_at # Null
                   \/ found = {}
                   \/ \E f \in found : f.deleted_at # Null
                   \/ latest = {}
                   THEN daemonLoop(st, rest, snapshotsCreated)
                   ELSE UNION {
                       IF latestVersion.is_checkpoint
                          THEN daemonLoop(st, rest, snapshotsCreated)
                          ELSE LET outcomes == reconstructVersion(st.versions, file.id,
                                                       latestVersion.created_at)
                               IN  IF outcomes = {} THEN {NoTask}
                                   ELSE {[NoTask EXCEPT !.kind = "daemon",
                                                        !.pc = "consolidate",
                                                        !.fileId = file.id,
                                                        !.prev = content,
                                                        !.pending = rest,
                                                        !.created = snapshotsCreated]
                                         : content \in outcomes}
                       : latestVersion \in latest}

\* runSnapshotDaemon() is called: by startSnapshotDaemon at load and after a
\* settings save, and by the interval timer
DaemonBegin(t) ==
    /\ tasks[t] = NoTask
    /\ \E next \in daemonLoop(Store(files, versions), files, 0) :
           tasks' = [tasks EXCEPT ![t] = next]
    /\ UNCHANGED <<clock, files, versions, disk, last, saved, daemonCp, serverVars, clientVars, httpVars, authVars, intervalVars, vaultVars>>

\* createSnapshotIfNeeded from the resolution of reconstructVersion to its
\* return, and the pass up to its next await
DaemonResume(t) ==
    LET task == tasks[t]
        now == clock
        version == [id |-> NewVersionId(versions), file_id |-> task.fileId,
                    is_checkpoint |-> TRUE, data |-> <<task.prev>>,
                    created_at |-> now]
        vs1 == insertVersion(versions, version)
        vs2 == deleteNonFirstCheckpoints(vs1, task.fileId, version.id)
        fs2 == updateFile(files, task.fileId, [updated_at |-> now])
    IN  /\ task.kind = "daemon" /\ task.pc = "consolidate"
        /\ version.id <= MaxVersions
        /\ versions' = vs2
        /\ files' = fs2
        /\ \E next \in daemonLoop(Store(fs2, vs2), task.pending, task.created + 1) :
               tasks' = [tasks EXCEPT ![t] = next]
        /\ UNCHANGED <<clock, disk, last, saved, daemonCp, serverVars, clientVars, httpVars, authVars, intervalVars, vaultVars>>

\* the write of the exported image completes and the call returns
FlushDone(t) ==
    /\ tasks[t].pc = "flush"
    /\ disk' = tasks[t].image
    /\ tasks' = [tasks EXCEPT ![t] = NoTask]
    /\ UNCHANGED <<clock, files, versions, last, saved, daemonCp, serverVars, clientVars, httpVars, authVars, intervalVars, vaultVars>>

InitAsync == tasks = [t \in Slots |-> NoTask]

\* ------------------------------------------------------------------------
\* Server: store and handlers
\* ------------------------------------------------------------------------
Users == {"u1", "u2"}
MaxSyncIds == 2
MaxBatch == 2
MaxServerClock == 2

\* the store the server opens: each user has authorized one device and created
\* one vault (rows written earlier by POST /auth/token and POST /vaults)
InitVaults == {[id |-> 1, user_id |-> "u1", name |-> "notes"],
               [id |-> 2, user_id |-> "u2", name |-> "notes"]}
InitDevices == {[id |-> 1, user_id |-> "u1"], [id |-> 2, user_id |-> "u2"]}
VaultIds == {v.id : v \in InitVaults} \cup {0}

\* what a client uploads for a version id: the first version is a checkpoint,
\* the later ones are diffs
Payload(i) == IF i = 1 THEN [is_checkpoint |-> TRUE, data |-> "x", created_at |-> 1]
              ELSE [is_checkpoint |-> FALSE, data |-> "y", created_at |-> i]

\* SyncVersionInput; path and file id are whatever the client asserts
SyncInputs ==
    {[id |-> i, file_path |-> p, file_id |-> f,
      is_checkpoint |-> Payload(i).is_checkpoint,
      data |-> Payload(i).data, created_at |-> Payload(i).created_at]
     : i \in 1..MaxSyncIds, p \in Paths, f \in FileIds}

Batches == UNION {[1..n -> SyncInputs] : n \in 1..MaxBatch}

getVaultById(vaults, id) == {v \in vaults : v.id = id}

serverGetFileById(fs, id) == {f \in fs : f.id = id}

serverInsertFile(fs, file) == fs \cup {file}

serverUpdateFile(fs, id, updates) ==
    {IF f.id = id
        THEN [k \in DOMAIN f |-> IF k \in DOMAIN updates THEN updates[k] ELSE f[k]]
        ELSE f : f \in fs}

serverInsertVersion(vs, version) == vs \cup {version}

getFileByVaultAndPath(fs, vaultId, path) ==
    {f \in fs : f.vault_id = vaultId /\ f.path = path}

versionExists(vs, id) == \E v \in vs : v.id = id

\* versions.device_id REFERENCES devices(id): the INSERT throws for an unknown device
DeviceKnown(devices, deviceId) == \E d \in devices : d.id = deviceId

\* the `data` of an uploaded version is a JSON value: a text, or "{}" that
\* stands for an object; insertVersion binds it as a statement parameter, and
\* the driver throws for a value that is not a number, text, buffer or null
Bindable(data) == data # "{}"

\* syncVersions, the loop body past the idempotence check: get or create the
\* file, then insert the version; a failing statement is caught per version
StoreOne(acc, ctx, version, now) ==
    LET byPath == getFileByVaultAndPath(acc.files, ctx.vaultId, version.file_path)
        existingById == serverGetFileById(acc.files, version.file_id)
        newFile == [id |-> version.file_id, vault_id |-> ctx.vaultId,
                    path |-> version.file_path, deleted_at |-> Null,
                    created_at |-> version.created_at, updated_at |-> now]
        file == IF byPath # {} THEN CHOOSE f \in byPath : TRUE
                ELSE IF existingById # {} THEN CHOOSE f \in existingById : TRUE
                ELSE newFile
        files1 == IF byPath # {}
                     THEN serverUpdateFile(acc.files, file.id, [updated_at |-> now])
                     ELSE IF existingById # {} THEN acc.files
                     ELSE serverInsertFile(acc.files, newFile)
        serverVersion == [id |-> version.id, file_id |-> file.id,
                          device_id |-> ctx.deviceId,
                          is_checkpoint |-> version.is_checkpoint,
                          data |-> version.data,
                          created_at |-> version.created_at]
    IN  IF Bindable(version.data) /\ DeviceKnown(acc.devices, ctx.deviceId)
           THEN [acc EXCEPT !.files = files1,
                            !.versions = serverInsertVersion(@, serverVersion),
                            !.synced = Append(@, version.id)]
           ELSE [acc EXCEPT !.files = files1,
                            !.errors = Append(@, [version_id |-> version.id,
                                                 error |->
                                                   IF Bindable(version.data)
                                                      THEN "FOREIGN KEY constraint failed"
                                                      ELSE "SQLite3 can only bind numbers, strings, bigints, buffers, and null"])]

\* (an upload that overwrites the row of an id it has seen before)
SyncOne_Upsert(acc, ctx, version, now) ==
    StoreOne([acc EXCEPT !.versions = {v \in @ : v.id # version.id}], ctx, version, now)

\* the body of the loop of syncVersions for one version; acc carries the tables
\* and the response built so far
SyncOne(acc, ctx, version, now) ==
    IF versionExists(acc.versions, version.id)
       THEN [acc EXCEPT !.synced = Append(@, version.id)]
       ELSE StoreOne(acc, ctx, version, now)

RECURSIVE SyncLoop(_, _, _, _)
SyncLoop(acc, ctx, input, now) ==
    IF input = <<>> THEN acc
    ELSE SyncLoop(SyncOne(acc, ctx, Head(input), now), ctx, Tail(input), now)

RejectAll(input, message) ==
    [i \in 1..Len(input) |-> [version_id |-> input[i].id, error |-> message]]

\* the tables of the server store
Db(vaults, devices, fs, vs) ==
    [vaults |-> vaults, devices |-> devices, files |-> fs, versions |-> vs]

\* (an upload that checks that the vault exists, but not whose it is)
syncVersions_AnyOwner(db, ctx, input, now) ==
    LET start == [files |-> db.files, versions |-> db.versions, devices |-> db.devices,
                  synced |-> <<>>, errors |-> <<>>]
    IN  IF getVaultById(db.vaults, ctx.vaultId) = {}
           THEN [start EXCEPT !.errors = RejectAll(input, "Vault not found")]
           ELSE SyncLoop(start, ctx, input, now)

\* syncVersions(ctx, versions) on store db: the tables and the response it leaves
syncVersions(db, ctx, input, now) ==
    LET start == [files |-> db.files, versions |-> db.versions, devices |-> db.devices,
                  synced |-> <<>>, errors |-> <<>>]
        vault == getVaultById(db.vaults, ctx.vaultId)
    IN  IF vault = {}
           THEN [start EXCEPT !.errors = RejectAll(input, "Vault not found")]
        ELSE IF (CHOOSE v \in vault : TRUE).user_id # ctx.userId
           THEN [start EXCEPT !.errors = RejectAll(input, "Access denied to vault")]
        ELSE SyncLoop(start, ctx, input, now)

\* the claims of an access token: a registered device with its user, or a
\* device id the devices table does not hold
Tokens ==
    {[userId |-> d.user_id, deviceId |-> d.id] : d \in sDevices}
    \cup {[userId |-> "u1", deviceId |-> 0]}

Range(seq) == {seq[i] : i \in 1..Len(seq)}

SyncContext(token, vaultId) ==
    [userId |-> token.userId, deviceId |-> token.deviceId, vaultId |-> vaultId]

ServerDb == Db(sVaults, sDevices, sFiles, sVersions)

\* POST /sync/versions with a valid payload
PostSyncVersions(token, vaultId, input) ==
    LET ctx == SyncContext(token, vaultId)
        r == syncVersions(ServerDb, ctx, input, clock)
    IN  /\ sFiles' = r.files
        /\ sVersions' = r.versions
        /\ sUploaded' = sUploaded \cup
               {[id |-> v.id, userId |-> ctx.userId, vaultId |-> vaultId]
                : v \in r.versions \ sVersions}
        /\ UNCHANGED <<sVaults, sDevices, files, versions, disk, last, saved,
                       daemonCp, clock, tasks, clientVars, httpVars, authVars, intervalVars, vaultVars>>

\* ------------------------------------------------------------------------
\* Upload route and uploader (SyncService.sync)
\* ------------------------------------------------------------------------
MaxClientVersions == 3

\* the `data` of a version row of the uploader: a text, the empty text (the
\* checkpoint of an empty note), or an object
ClientData == {"x", "", "{}"}

\* version i of the uploader's note as the SyncVersionInput that sync() builds
ClientInput(i, data) ==
    [id |-> i, file_path |-> "p1", file_id |-> 1, is_checkpoint |-> (i = 1),
     data |-> data, created_at |-> i]

\* POST /sync/versions: "Validate each version"
validVersion(v) ==
    ~(\/ v.id = 0
      \/ v.file_path = ""
      \/ v.file_id = 0
      \/ v.is_checkpoint \notin BOOLEAN
      \/ v.data = ""
      \/ v.created_at = 0)

\* app.onError: the status of the response when a handler or a middleware
\* has thrown, whatever the status of the HTTPException
onError(thrown) == 500

\* the body of a POST /sync/versions: vault_id may be absent, and versions
\* may be something else than an array
SyncBody(vaultId, input) == [vault_id |-> <<vaultId>>, is_array |-> TRUE, versions |-> input]

\* POST /sync/versions for an authenticated caller: the status and the body
\* of the response, and the tables the request leaves
postSyncVersions(db, auth, body, now) ==
    LET thrown400 == [status |-> onError(400), files |-> db.files,
                      versions |-> db.versions, synced |-> <<>>, errors |-> <<>>]
    IN  IF body.vault_id = Null THEN thrown400
        ELSE IF ~body.is_array THEN thrown400
        ELSE IF \E i \in 1..Len(body.versions) : ~validVersion(body.versions[i])
           THEN thrown400
        ELSE LET r == syncVersions(db, SyncContext(auth, body.vault_id[1]),
                                   body.versions, now)
             IN  [status |-> 200, files |-> r.files, versions |-> r.versions,
                  synced |-> r.synced, errors |-> r.errors]

\* DbService.getUnsyncedVersions() mapped to the batch: the rows that are not
\* marked as synced, oldest first
RECURSIVE getUnsyncedVersions(_, _)
getUnsyncedVersions(rows, unsynced) ==
    IF unsynced = {} THEN <<>>
    ELSE LET i == CHOOSE j \in unsynced : \A k \in unsynced : j <= k
         IN  <<ClientInput(i, rows[i])>> \o getUnsyncedVersions(rows, unsynced \ {i})

\* (an uploader that marks every version it has sent)
markVersionsSynced_Sent(unsynced, ids) == {}

\* DbService.markVersionsSynced(ids)
markVersionsSynced(unsynced, ids) == unsynced \ Range(ids)

\* SyncService.sync() from the response on: the ids that stay unsynced; a
\* status of 400 or more makes makeAuthenticatedRequest throw
syncMarks(unsynced, response) ==
    IF response.status >= 400 THEN unsynced
    ELSE IF Len(response.synced) > 0
            THEN markVersionsSynced(unsynced, response.synced)
            ELSE unsynced

NoUpload ==
    [status |-> 0, deviceId |-> 0, vaultId |-> 0, input |-> <<>>,
     synced |-> <<>>, errors |-> <<>>]

\* a version is recorded on the uploader's side: a new row, not synced
ClientRecord(data) ==
    /\ Len(cVersions) < MaxClientVersions
    /\ cVersions' = Append(cVersions, data)
    /\ cUnsynced' = cUnsynced \cup {Len(cVersions) + 1}
    /\ UNCHANGED <<cLast, localVars, serverVars, tasks, httpVars, authVars, intervalVars, vaultVars>>

\* SyncService.sync() with the route that answers it
ClientSync(token, vaultId) ==
    LET input == getUnsyncedVersions(cVersions, cUnsynced)
        ctx == SyncContext(token, vaultId)
        response == postSyncVersions(ServerDb, token, SyncBody(vaultId, input), clock)
    IN  /\ cUnsynced # {}
        /\ sFiles' = response.files
        /\ sVersions' = response.versions
        /\ sUploaded' = sUploaded \cup
               {[id |-> v.id, userId |-> ctx.userId, vaultId |-> vaultId]
                : v \in response.versions \ sVersions}
        /\ cUnsynced' = syncMarks(cUnsynced, response)
        /\ cLast' = [status |-> response.status, deviceId |-> token.deviceId,
                     vaultId |-> vaultId, input |-> input,
                     synced |-> response.synced, errors |-> response.errors]
        /\ UNCHANGED <<sVaults, sDevices, cVersions, localVars, tasks, httpVars, authVars, intervalVars, vaultVars>>

InitClient ==
    /\ cVersions = <<>>
    /\ cUnsynced = {}
    /\ cLast = NoUpload

\* ------------------------------------------------------------------------
\* HTTP server: authMiddleware, the routes of sync.ts, app.onError
\* ------------------------------------------------------------------------
MaxVaults == 3

\* the Authorization header of a request: absent or not a Bearer header, or a
\* Bearer token with what verifyToken makes of it (rejected, or a payload in
\* which sub or device_id may be missing)
AuthHeader(bearer, verified, sub, device_id) ==
    [bearer |-> bearer, verified |-> verified, sub |-> sub, device_id |-> device_id]

AuthHeaders ==
    {AuthHeader(FALSE, FALSE, "", 0),
     AuthHeader(TRUE, FALSE, "", 0),
     AuthHeader(TRUE, TRUE, "", 1),
     AuthHeader(TRUE, TRUE, "u1", 0),
     AuthHeader(TRUE, TRUE, "u1", 1)}

\* authMiddleware: the AuthContext it hands to the route, or null when it
\* throws HTTPException(401)
authMiddleware(header) ==
    IF ~header.bearer THEN Null
    ELSE IF ~header.verified THEN Null
    ELSE IF header.sub = "" THEN Null
    ELSE IF header.device_id = 0 THEN Null
    ELSE <<[userId |-> header.sub, deviceId |-> header.device_id]>>

NoBody == [vault_id |-> Null, is_array |-> FALSE, versions |-> <<>>]

HttpInputs == {ClientInput(i, d) : i \in 1..MaxSyncIds, d \in {"x", ""}}

HttpBodies ==
    {[vault_id |-> v, is_array |-> TRUE, versions |-> vs]
     : v \in {Null, <<1>>},
       vs \in UNION {[1..n -> HttpInputs] : n \in 0..MaxBatch}}
    \cup {[vault_id |-> v, is_array |-> FALSE, versions |-> <<>>] : v \in {Null, <<1>>}}

HttpAnswer(route, header, body, name, status, handled) ==
    [route |-> route, header |-> header, body |-> body, name |-> name,
     status |-> status, handled |-> handled]

\* a request that authMiddleware turns down: the route handler does not run
Unauthorized(route, header, body, name) ==
    /\ hLast' = HttpAnswer(route, header, body, name, onError(401), FALSE)
    /\ UNCHANGED <<sVaults, sFiles, sVersions, sUploaded>>

\* POST /sync/versions
HttpPostSyncVersions(header, body) ==
    LET auth == authMiddleware(header)
    IN  /\ IF auth = Null
              THEN Unauthorized("POST /sync/versions", header, body, "")
              ELSE LET r == postSyncVersions(ServerDb, auth[1], body, clock)
                   IN  /\ sFiles' = r.files
                       /\ sVersions' = r.versions
                       /\ sUploaded' = sUploaded \cup
                              {[id |-> v.id, userId |-> auth[1].userId,
                                vaultId |-> body.vault_id[1]]
                               : v \in r.versions \ sVersions}
                       /\ hLast' = HttpAnswer("POST /sync/versions", header, body, "",
                                              r.status, TRUE)
                       /\ UNCHANGED sVaults
        /\ UNCHANGED <<sDevices, localVars, tasks, clientVars, authVars, intervalVars, vaultVars>>

\* GET /vaults
HttpGetVaults(header) ==
    LET auth == authMiddleware(header)
    IN  /\ IF auth = Null
              THEN Unauthorized("GET /vaults", header, NoBody, "")
              ELSE /\ hLast' = HttpAnswer("GET /vaults", header, NoBody, "", 200, TRUE)
                   /\ UNCHANGED <<sVaults, sFiles, sVersions, sUploaded>>
        /\ UNCHANGED <<sDevices, localVars, tasks, clientVars, authVars, intervalVars, vaultVars>>

\* POST /vaults
HttpPostVaults(header, name) ==
    LET auth == authMiddleware(header)
        id == Cardinality(sVaults) + 1
    IN  /\ IF auth = Null
              THEN Unauthorized("POST /vaults", header, NoBody, name)
              ELSE IF name = ""
                 THEN /\ hLast' = HttpAnswer("POST /vaults", header, NoBody, name,
                                             onError(400), TRUE)
                      /\ UNCHANGED <<sVaults, sFiles, sVersions, sUploaded>>
                 ELSE /\ id <= MaxVaults
                      /\ sVaults' = sVaults \cup
                             {[id |-> id, user_id |-> auth[1].userId, name |-> name]}
                      /\ hLast' = HttpAnswer("POST /vaults", header, NoBody, name,
                                             201, TRUE)
                      /\ UNCHANGED <<sFiles, sVersions, sUploaded>>
        /\ UNCHANGED <<sDevices, localVars, tasks, clientVars, authVars, intervalVars, vaultVars>>

InitHttp ==
    hLast = HttpAnswer("", AuthHeader(FALSE, FALSE, "", 0), NoBody, "", 0, FALSE)

\* ------------------------------------------------------------------------
\* SyncService: makeAuthenticatedRequest and the device-authorization poll
\* ------------------------------------------------------------------------
MaxAttempts == 3
MaxTimers == 2
MaxPolls == 2

\* what requestUrl yields for a request: a response with a status, or a
\* rejection (network error, or a status it refuses to return)
Outcomes == {"200", "401", "500", "throws"}

\* (a retry that answers another 401 with another refresh)
afterUnauthorized_Again(pc) == "refresh"

\* makeAuthenticatedRequest, `catch (error)`: "Unauthorized" from the first
\* doRequest leads to refreshAccessToken; thrown by the retry, which runs
\* inside the catch block, it leaves the call
afterUnauthorized(pc) == IF pc = "request" THEN "refresh" ELSE "done"

\* the credentials are cleared
Cleared(a) == a.accessToken = "" /\ a.refreshToken = "" /\ a.deviceId = ""

\* makeAuthenticatedRequest is called: the first doRequest is sent
AuthCall ==
    /\ cAuth.pc \in {"idle", "done"}
    /\ cAuth' = [cAuth EXCEPT !.pc = "request", !.attempts = 1, !.refreshes = 0,
                              !.outcome = ""]
    /\ UNCHANGED <<cPoll, localVars, serverVars, tasks, clientVars, httpVars, intervalVars, vaultVars>>

\* makeAuthenticatedRequest after refreshAccessToken returned false: the
\* credentials are cleared and saveSettings is awaited
clearCredentials(a) ==
    [a EXCEPT !.pc = "clearing", !.accessToken = "", !.refreshToken = "",
              !.deviceId = ""]

\* doRequest resumes with what requestUrl yields, up to the next await or to
\* the end of the call
AuthResponse(outcome) ==
    /\ cAuth.pc \in {"request", "retry"}
    /\ cAuth' =
         IF outcome = "200" THEN [cAuth EXCEPT !.pc = "done", !.outcome = "ok"]
         ELSE IF outcome # "401"
            THEN [cAuth EXCEPT !.pc = "done", !.outcome = "error"]
         ELSE IF afterUnauthorized(cAuth.pc) = "done"
            THEN [cAuth EXCEPT !.pc = "done", !.outcome = "unauthorized"]
         ELSE IF cAuth.refreshToken = ""
            THEN clearCredentials(cAuth)
         ELSE [cAuth EXCEPT !.pc = "refresh", !.refreshes = @ + 1]
    /\ cAuth'.refreshes < MaxAttempts
    /\ UNCHANGED <<cPoll, localVars, serverVars, tasks, clientVars, httpVars, intervalVars, vaultVars>>

\* refreshAccessToken resumes with the answer of /auth/refresh: the new
\* access token is stored and saveSettings is awaited, or false is returned
RefreshResponse(outcome) ==
    /\ cAuth.pc = "refresh"
    /\ cAuth' =
         IF outcome = "200"
            THEN [cAuth EXCEPT !.pc = "saving", !.accessToken = "a1"]
            ELSE clearCredentials(cAuth)
    /\ UNCHANGED <<cPoll, localVars, serverVars, tasks, clientVars, httpVars, intervalVars, vaultVars>>

\* the awaited saveSettings settles. In refreshAccessToken a rejection is
\* caught and false is returned; otherwise the retry is sent. After the
\* credentials were cleared, "Session expired, please login again" is thrown
AuthSaved(resolved) ==
    /\ cAuth.pc \in {"saving", "clearing"}
    /\ cAuth.pc = "clearing" => resolved
    /\ cAuth' =
         IF cAuth.pc = "clearing"
            THEN [cAuth EXCEPT !.pc = "done", !.outcome = "relogin"]
         ELSE IF resolved
            THEN [cAuth EXCEPT !.pc = "retry", !.attempts = @ + 1]
            ELSE clearCredentials(cAuth)
    /\ cAuth'.attempts <= MaxAttempts
    /\ UNCHANGED <<cPoll, localVars, serverVars, tasks, clientVars, httpVars, intervalVars, vaultVars>>

\* clearInterval(this.pollingInterval); this.pollingInterval = null
clearPolling(p) == [p EXCEPT !.timer = 0]

\* initiateLogin calls startTokenPolling: the previous timer is cleared, a
\* new one is set, and pollForToken is called at once
StartPolling ==
    /\ cPoll.timers < MaxTimers
    /\ cPoll.requests + cPoll.saving < MaxPolls
    /\ cPoll' = [cPoll EXCEPT !.timers = @ + 1, !.timer = cPoll.timers + 1,
                              !.requests = @ + 1, !.ended = FALSE,
                              !.old = cPoll.requests, !.oldSaving = cPoll.saving]
    /\ UNCHANGED <<cAuth, localVars, serverVars, tasks, clientVars, httpVars, intervalVars, vaultVars>>

\* the interval timer fires: pollForToken sends a request
PollTick ==
    /\ cPoll.timer # 0
    /\ cPoll.requests + cPoll.saving < MaxPolls
    /\ cPoll' = [cPoll EXCEPT !.requests = @ + 1]
    /\ UNCHANGED <<cAuth, localVars, serverVars, tasks, clientVars, httpVars, intervalVars, vaultVars>>

\* an iteration of pollForToken leaves its request (n = 1 when it was sent
\* before the last stop() or startTokenPolling)
Answered(p, n) == [p EXCEPT !.requests = @ - 1, !.old = @ - n]

\* pollForToken resumes with the answer of /auth/token; `old` tells whether
\* the iteration was started before the last stop() or startTokenPolling.
\* Nothing in the closure tells the two apart
PollResponse(answer, old) ==
    LET n == IF old THEN 1 ELSE 0
    IN  /\ IF old THEN cPoll.old > 0 ELSE cPoll.requests > cPoll.old
        /\ IF answer = "authorization_pending"
              THEN /\ cPoll' = Answered(cPoll, n)
                   /\ UNCHANGED cAuth
              ELSE IF answer = "tokens"
              THEN /\ cPoll' = [Answered(cPoll, n) EXCEPT !.saving = @ + 1,
                                                          !.oldSaving = @ + n,
                                                          !.ended = TRUE]
                   /\ cAuth' = [cAuth EXCEPT !.accessToken = "a0",
                                             !.refreshToken = "r0",
                                             !.deviceId = "d0"]
              ELSE /\ cPoll' = [clearPolling(Answered(cPoll, n)) EXCEPT !.ended = TRUE]
                   /\ UNCHANGED cAuth
    /\ UNCHANGED <<localVars, serverVars, tasks, clientVars, httpVars, intervalVars, vaultVars>>

\* pollForToken resumes after `await this.saveSettings()`, which has
\* resolved or rejected: the timer is cleared either way
PollSaved(old) ==
    /\ IF old THEN cPoll.oldSaving > 0 ELSE cPoll.saving > cPoll.oldSaving
    /\ cPoll' = [clearPolling(cPoll) EXCEPT !.saving = @ - 1,
                                            !.oldSaving = @ - (IF old THEN 1 ELSE 0)]
    /\ UNCHANGED <<cAuth, localVars, serverVars, tasks, clientVars, httpVars, intervalVars, vaultVars>>

\* SyncService.stop()
StopPolling ==
    /\ cPoll' = [clearPolling(cPoll) EXCEPT !.ended = TRUE,
                                            !.old = cPoll.requests,
                                            !.oldSaving = cPoll.saving]
    /\ UNCHANGED <<cAuth, localVars, serverVars, tasks, clientVars, httpVars, intervalVars, vaultVars>>

InitAuth ==
    /\ cAuth = [accessToken |-> "a0", refreshToken |-> "r0", deviceId |-> "d0",
                pc |-> "idle", attempts |-> 0, refreshes |-> 0, outcome |-> ""]
    /\ cPoll = [timer |-> 0, timers |-> 0, requests |-> 0, saving |-> 0,
                old |-> 0, oldSaving |-> 0,
                ended |-> FALSE]

\* ------------------------------------------------------------------------
\* SyncService.ensureVaultExists of the devices of user u1, against the
\* routes the Hono app serves
\* ------------------------------------------------------------------------
MaxDevices == 3
MaxPasses == 2

VaultDevices == 1..MaxDevices

\* this.vaultName, the name of the local vault
VaultName == "journal"

\* the method and path of the routes of the app (sync is mounted at "/")
Routes == {<<"GET", "/vaults">>, <<"POST", "/vaults">>, <<"POST", "/sync/versions">>}

\* (a client that addresses the vault routes where the app serves them)
VaultsUrl_Served == "/vaults"

\* the path ensureVaultExists requests, after settings.serverUrl
VaultsUrl == "/sync/vaults"

\* the status the app answers to an authenticated request: a path no route
\* matches is answered 404
routeStatus(method, path, handled) ==
    IF <<method, path>> \in Routes THEN handled ELSE 404

\* db.getVaultsByUserId(userId)
getVaultsByUserId(vaults, userId) == {v \in vaults : v.user_id = userId}

\* db.insertVault of POST /vaults (ids are handed out in order)
insertVault(vaults, userId, name) ==
    vaults \cup {[id |-> Cardinality(vaults) + 1, user_id |-> userId, name |-> name]}

\* settings.vaultId is 0 when it is the empty string
NoVault == [vaultId |-> 0, pc |-> "idle", passes |-> 0, ready |-> ""]

\* sync() calls ensureVaultExists: with or without a cached vaultId the
\* first request is the GET of the vault list
EnsureBegin(d) ==
    /\ dVault[d].pc = "idle"
    /\ dVault[d].passes < MaxPasses
    /\ dVault' = [dVault EXCEPT ![d].pc = "list", ![d].passes = @ + 1,
                                ![d].ready = ""]
    /\ UNCHANGED <<localVars, serverVars, tasks, clientVars, httpVars, authVars, intervalVars>>

\* ensureVaultExists returns: pc is idle again
Returned(v, ready) == [v EXCEPT !.pc = "idle", !.ready = ready]

\* ensureVaultExists resumes after an await, up to the next one or to its
\* return: with the answer to the GET (the cached id is looked up, then the
\* name, else the POST is sent), with the answer to the POST, or after
\* saveSettings. doRequest throws for a status >= 400 and the catch block
\* returns false
EnsureResume(d) ==
    LET v == dVault[d]
        listed == getVaultsByUserId(sVaults, "u1")
        byName == {w \in listed : w.name = VaultName}
    IN  /\ v.pc # "idle"
        /\ IF v.pc = "list"
              THEN /\ UNCHANGED sVaults
                   /\ IF routeStatus("GET", VaultsUrl, 200) >= 400
                         THEN dVault' = [dVault EXCEPT ![d] = Returned(v, "false")]
                      ELSE IF v.vaultId # 0 /\ \E w \in listed : w.id = v.vaultId
                         THEN dVault' = [dVault EXCEPT ![d] = Returned(v, "true")]
                      ELSE IF byName # {}
                         THEN \E w \in byName :
                                dVault' = [dVault EXCEPT ![d].vaultId = w.id,
                                                         ![d].pc = "save"]
                      ELSE dVault' = [dVault EXCEPT ![d].pc = "create"]
           ELSE IF v.pc = "create"
              THEN IF routeStatus("POST", VaultsUrl, 201) >= 400
                      THEN /\ dVault' = [dVault EXCEPT ![d] = Returned(v, "false")]
                           /\ UNCHANGED sVaults
                      ELSE /\ Cardinality(sVaults) < MaxVaults
                           /\ sVaults' = insertVault(sVaults, "u1", VaultName)
                           /\ dVault' = [dVault EXCEPT
                                  ![d].vaultId = Cardinality(sVaults) + 1,
                                  ![d].pc = "save"]
           ELSE /\ UNCHANGED sVaults
                /\ \E resolved \in BOOLEAN :
                      dVault' = [dVault EXCEPT
                          ![d] = Returned(v, IF resolved THEN "true" ELSE "false")]
        /\ UNCHANGED <<sDevices, sFiles, sVersions, sUploaded, localVars, tasks, clientVars, httpVars, authVars, intervalVars>>

InitVault == dVault = [d \in VaultDevices |-> NoVault]

NextVault ==
    \/ \E d \in VaultDevices : EnsureBegin(d)
    \/ \E d \in VaultDevices : EnsureResume(d)

\* ------------------------------------------------------------------------
\* Interval-checkpoint HistoryService (src/src/history.ts over src/src/db.ts):
\* versions are numbered per file, every checkpointInterval-th is a checkpoint.
\* The timestamps of the rows play no part in its queries and are left out.
\* ------------------------------------------------------------------------
MaxInterval == 3
MaxVersionNum == 5

IntervalPaths == {"p1"}

\* ORDER BY version_num DESC LIMIT 1 (UNIQUE(file_id, version_num))
getLatestVersionByNum(vs, fileId) ==
    {v \in VersionsOf(vs, fileId) :
        \A w \in VersionsOf(vs, fileId) : w.version_num <= v.version_num}

\* version_num <= ? AND is_checkpoint = 1 ORDER BY version_num DESC LIMIT 1
getNearestCheckpointByNum(vs, fileId, beforeVersion) ==
    LET cps == {v \in VersionsOf(vs, fileId) :
                    v.is_checkpoint /\ v.version_num <= beforeVersion}
    IN  {v \in cps : \A w \in cps : w.version_num <= v.version_num}

\* version_num >= ? AND version_num <= ? ORDER BY version_num ASC
getVersionsInRangeByNum(vs, fileId, fromVersion, toVersion) ==
    {v \in VersionsOf(vs, fileId) :
        fromVersion <= v.version_num /\ v.version_num <= toVersion}

\* the loop of reconstructVersion over the fetched range, lowest number first
RECURSIVE ApplyRangeByNum(_, _)
ApplyRangeByNum(content, rows) ==
    IF rows = {} THEN content
    ELSE LET r == CHOOSE v \in rows : \A w \in rows : v.version_num <= w.version_num
         IN  ApplyRangeByNum(IF ~r.is_checkpoint
                                THEN patch_apply(patch_fromText(r.data), content)
                                ELSE r.data[1],
                             rows \ {r})

\* <<content>>, or Null when reconstructVersion throws "No checkpoint found"
reconstructVersionByNum(vs, fileId, targetVersion) ==
    LET found == getNearestCheckpointByNum(vs, fileId, targetVersion)
        checkpoint == CHOOSE v \in found : TRUE
    IN  IF found = {} THEN Null
        ELSE IF checkpoint.version_num < targetVersion
            THEN <<ApplyRangeByNum(checkpoint.data[1],
                      getVersionsInRangeByNum(vs, fileId,
                          checkpoint.version_num + 1, targetVersion))>>
            ELSE <<checkpoint.data[1]>>

\* the number of patches reconstructVersion applies for targetVersion
PatchesApplied(vs, fileId, targetVersion) ==
    LET found == getNearestCheckpointByNum(vs, fileId, targetVersion)
        checkpoint == CHOOSE v \in found : TRUE
    IN  IF found = {} THEN 0
        ELSE Cardinality({v \in getVersionsInRangeByNum(vs, fileId,
                                   checkpoint.version_num + 1, targetVersion) :
                             ~v.is_checkpoint})

\* (a save that makes a checkpoint of the version after each multiple)
isCheckpointByNum_After(nextVersionNum, checkpointInterval) ==
    nextVersionNum = 1 \/ nextVersionNum % checkpointInterval = 1

\* save: nextVersionNum === 1 || nextVersionNum % this.checkpointInterval === 0
isCheckpointByNum(nextVersionNum, checkpointInterval) ==
    nextVersionNum = 1 \/ nextVersionNum % checkpointInterval = 0

\* HistoryService.save(filePath, content): the store it leaves
saveByNum(fs, vs, checkpointInterval, filePath, content) ==
    LET found == getFileByPath(fs, filePath)
        file == IF found = {}
                   THEN [id |-> NewFileId(fs), path |-> filePath, deleted_at |-> Null]
                   ELSE CHOOSE f \in found : TRUE
        fs1 == IF found = {} THEN insertFile(fs, file)
               ELSE IF file.deleted_at # Null
                  THEN updateFile(fs, file.id, [deleted_at |-> Null])
                  ELSE fs
        latestVersion == getLatestVersionByNum(vs, file.id)
        nextVersionNum == IF latestVersion = {} THEN 1
                          ELSE (CHOOSE v \in latestVersion : TRUE).version_num + 1
        isCheckpoint == isCheckpointByNum(nextVersionNum, checkpointInterval)
        previousContent == reconstructVersionByNum(vs, file.id, nextVersionNum - 1)
        version(data) == [file_id |-> file.id, version_num |-> nextVersionNum,
                          is_checkpoint |-> isCheckpoint, data |-> data]
    IN  IF isCheckpoint
           THEN [files |-> fs1, versions |-> insertVersion(vs, version(<<content>>))]
        ELSE IF previousContent = Null \/ previousContent = <<content>>
           THEN [files |-> fs1, versions |-> vs]
        ELSE [files |-> fs1,
              versions |-> insertVersion(vs,
                  version(patch_toText(patch_make(previousContent[1], content))))]

IntervalSave(filePath, content) ==
    LET r == saveByNum(iFiles, iVersions, iInterval, filePath, content)
    IN  /\ Cardinality(r.versions) <= MaxVersionNum
        /\ iFiles' = r.files
        /\ iVersions' = r.versions
        /\ iSaved' = iSaved \cup
              {[file_id |-> v.file_id, version_num |-> v.version_num,
                content |-> content, interval |-> iInterval]
               : v \in r.versions \ iVersions}
        /\ UNCHANGED <<iInterval, localVars, serverVars, tasks, clientVars, httpVars, authVars, vaultVars>>

SetCheckpointInterval(interval) ==
    /\ iInterval' = interval
    /\ UNCHANGED <<iFiles, iVersions, iSaved, localVars, serverVars, tasks, clientVars, httpVars, authVars, vaultVars>>

\* markDeleted of this service: deleted_at is set when the file is live
IntervalMarkDeleted(filePath) ==
    /\ iFiles' = {IF f.path = filePath /\ f.deleted_at = Null
                     THEN [f EXCEPT !.deleted_at = <<0>>] ELSE f : f \in iFiles}
    /\ UNCHANGED <<iVersions, iInterval, iSaved, localVars, serverVars, tasks, clientVars, httpVars, authVars, vaultVars>>

InitInterval ==
    /\ iFiles = {}
    /\ iVersions = {}
    /\ iInterval = MaxInterval
    /\ iSaved = {}

\* Date.now() advances on the server
ServerTick ==
    /\ clock < MaxServerClock
    /\ clock' = clock + 1
    /\ UNCHANGED <<files, versions, disk, last, saved, daemonCp, serverVars, tasks, clientVars, httpVars, authVars, intervalVars, vaultVars>>

InitServer ==
    /\ sVaults = InitVaults
    /\ sDevices = InitDevices
    /\ sFiles = {}
    /\ sVersions = {}
    /\ sUploaded = {}

Init == InitLocal /\ InitAsync /\ InitServer /\ InitClient /\ InitHttp /\ InitAuth /\ InitInterval /\ InitVault

\* the edits of the vault reach save() for the one note that is being tracked
Edited(p) == files = {} \/ getFileByPath(files, p) # {}

Next ==
    \/ \E p \in Paths, c \in Contents : Edited(p) /\ Save(p, c)
    \/ RunSnapshotDaemon
    \/ \E p \in Paths : MarkDeleted(p)
    \/ \E p \in Paths, t \in 1..MaxClock : Restore(p, t)
    \/ \E p \in Paths, q \in Paths : Rename(p, q)
    \/ Tick

Spec == Init /\ [][Next]_vars

NextAsync ==
    \/ \E t \in Slots, p \in Paths, c \in Contents : Edited(p) /\ SaveBegin(t, p, c)
    \/ \E t \in Slots : SaveResume(t)
    \/ \E t \in Slots : DaemonBegin(t)
    \/ \E t \in Slots : DaemonResume(t)
    \/ \E t \in Slots : FlushDone(t)
    \/ Tick

SpecAsync == Init /\ [][NextAsync]_vars

\* the versions the notes of the vault hold together
MaxNoteVersions == 3

\* the vault renames a note to a path only when it holds no note there: a
\* record at that path is one of a deleted note
Vacant(p) == \A f \in getFileByPath(files, p) : f.deleted_at # Null

\* the edits, deletions and renames of the vault over all its notes
NextNotes ==
    \/ \E p \in Paths, c \in Contents :
          Cardinality(versions) < MaxNoteVersions /\ Save(p, c)
    \/ \E p \in Paths : MarkDeleted(p)
    \/ \E p \in Paths, q \in Paths : Vacant(q) /\ Rename(p, q)
    \/ Tick

SpecNotes == Init /\ [][NextNotes]_vars

SpecVault == Init /\ [][NextVault]_vars

NextServer ==
    \/ \E t \in Tokens, v \in VaultIds, b \in Batches : PostSyncVersions(t, v, b)
    \/ ServerTick

SpecServer == Init /\ [][NextServer]_vars

\* the uploader is the device of user u1, or a device the server has dropped
ClientTokens == {t \in Tokens : t.userId = "u1"}

NextClient ==
    \/ \E d \in ClientData : ClientRecord(d)
    \/ \E t \in ClientTokens, v \in VaultIds : ClientSync(t, v)
    \/ ServerTick

SpecClient == Init /\ [][NextClient]_vars

\* the uploader's own device and the vault of its user
OwnToken == [userId |-> "u1", deviceId |-> 1]
OwnVault == 1

\* sync passes recur (the sync timer), with valid credentials, and are answered
SpecClientFair ==
    /\ SpecClient
    /\ WF_vars(ClientSync(OwnToken, OwnVault))

NextHttp ==
    \/ \E h \in AuthHeaders, b \in HttpBodies : HttpPostSyncVersions(h, b)
    \/ \E h \in AuthHeaders : HttpGetVaults(h)
    \/ \E h \in AuthHeaders, n \in {"", "notes"} : HttpPostVaults(h, n)
    \/ ServerTick

SpecHttp == Init /\ [][NextHttp]_vars

NextAuth ==
    \/ AuthCall
    \/ \E o \in Outcomes : AuthResponse(o)
    \/ \E o \in Outcomes : RefreshResponse(o)
    \/ \E resolved \in BOOLEAN : AuthSaved(resolved)
    \/ StartPolling
    \/ PollTick
    \/ \E a \in {"authorization_pending", "tokens", "error"}, old \in BOOLEAN :
          PollResponse(a, old)
    \/ \E old \in BOOLEAN : PollSaved(old)
    \/ StopPolling

SpecAuth == Init /\ [][NextAuth]_vars

\* every request that was sent is answered or fails
SpecAuthFair ==
    /\ SpecAuth
    /\ WF_vars(\E o \in Outcomes : AuthResponse(o))
    /\ WF_vars(\E o \in Outcomes : RefreshResponse(o))
    /\ WF_vars(\E resolved \in BOOLEAN : AuthSaved(resolved))

NextInterval ==
    \/ \E p \in IntervalPaths, c \in Contents : IntervalSave(p, c)
    \/ \E i \in 1..MaxInterval : SetCheckpointInterval(i)
    \/ \E p \in IntervalPaths : IntervalMarkDeleted(p)

SpecInterval == Init /\ [][NextInterval]_vars

\* ------------------------------------------------------------------------
\* Local engine claims
\* ------------------------------------------------------------------------
CheckpointsOf(vs, fileId) == {v \in VersionsOf(vs, fileId) : v.is_checkpoint}

DiffsOf(vs, fileId) == {v \in VersionsOf(vs, fileId) : ~v.is_checkpoint}

TimestampsOf(vs, fileId) == {v.created_at : v \in VersionsOf(vs, fileId)}

\* what reconstructing the latest version of the file may return
LatestContent(vs, fileId) ==
    UNION {reconstructVersion(vs, fileId, lv.created_at)
           : lv \in getLatestVersion(vs, fileId)}

\* a daemon pass has pruned a checkpoint of the file: an id below the newest
\* daemon checkpoint is gone
Pruned(fileId) ==
    \E i \in 1..MaxVersions :
        /\ i < daemonCp[fileId]
        /\ \A v \in versions : v.id # i

\* C1: as long as only saves have written versions, reconstructVersion at the
\* created_at of the version a save inserted returns the content of that save.
C1_RoundTrip ==
    (\A f \in FileIds : daemonCp[f] = 0) =>
        \A s \in saved :
            reconstructVersion(versions, s.file_id, s.created_at) = {s.content}

\* C2: across a daemon pass, reconstructVersion returns the same content as
\* before the pass for every timestamp that was the created_at of a version
\* of the file before the pass.
C2_ConsolidationCorrectness ==
    [][last'.op = "daemon" =>
          \A f \in FileIds : \A T \in TimestampsOf(versions, f) :
              reconstructVersion(versions', f, T) = reconstructVersion(versions, f, T)]_vars

\* the first version of every file is a checkpoint, no version of the file is
\* older, and getNearestCheckpoint finds a checkpoint from its created_at on
FirstIsCheckpoint ==
    \A f \in FileIds :
        \A first \in FirstEver(versions, f) :
            /\ first.is_checkpoint
            /\ \A v \in VersionsOf(versions, f) : first.created_at <= v.created_at
            /\ \A T \in first.created_at..MaxClock :
                   getNearestCheckpoint(versions, f, T) # {}

\* no step removes or rewrites the first version of a file
FirstKept ==
    \A f \in FileIds :
        FirstEver(versions, f) # {} => FirstEver(versions', f) = FirstEver(versions, f)

\* C3: in every reachable state the earliest version of a file that has
\* versions is a checkpoint and getNearestCheckpoint(fileId, T) is non-null
\* for every T from its created_at on, and no step (save, daemon pass with
\* pruning, markDeleted, restore, rename) removes that row.
C3_FirstCheckpointInvariant == []FirstIsCheckpoint /\ [][FirstKept]_vars

\* a content is restored after a daemon pass pruned a checkpoint
C3_Witness ==
    /\ \E f \in FileIds : Pruned(f)
    /\ last.op = "restore"
    /\ last.out \in {"modify", "create"}

\* C4: a save(p, c) on a file whose reconstructed latest content is c inserts
\* no version, in any state; and a first save(p, c) followed by save(p, c)
\* leaves exactly one version for p.
C4_IdempotentNoOp ==
    [][last'.op = "save" =>
          \A f \in getFileByPath(files, last'.path) :
              /\ LatestContent(versions, f.id) = {last'.content} => versions' = versions
              /\ (/\ last.op = "save" /\ last.out = "checkpoint"
                  /\ last.path = last'.path /\ last.content = last'.content)
                 => Cardinality(VersionsOf(versions', f.id)) = 1]_vars

\* a save is skipped on a file whose latest version is a daemon checkpoint
\* that follows diffs
C4_Witness ==
    /\ last.op = "save"
    /\ last.out = "noop"
    /\ \E f \in getFileByPath(files, last.path) :
        /\ \E lv \in getLatestVersion(versions, f.id) : lv.id = daemonCp[f.id]
        /\ DiffsOf(versions, f.id) # {}
        /\ LatestContent(versions, f.id) = {last.content}

\* C8: no two versions of the same file share a created_at.
C8_StrictlyIncreasing ==
    \A v \in versions, w \in versions :
        (v.file_id = w.file_id /\ v # w) => v.created_at # w.created_at

\* C9: a file never has more than two checkpoint rows, and those it has are
\* its first-ever version and the newest daemon checkpoint.
C9_CheckpointCap ==
    \A f \in FileIds :
        /\ Cardinality(CheckpointsOf(versions, f)) <= 2
        /\ \A cp \in CheckpointsOf(versions, f) :
               cp \in FirstEver(versions, f) \/ cp.id = daemonCp[f]

\* a daemon pass has just replaced an older daemon checkpoint
C9_Witness ==
    /\ last.op = "daemon"
    /\ last.out = "created"
    /\ \E f \in FileIds :
        /\ Pruned(f)
        /\ Cardinality(CheckpointsOf(versions, f)) = 2

\* C10: no step (save, daemon pass with pruning, markDeleted, restore, rename)
\* deletes or modifies a non-checkpoint version row.
C10_AppendOnlyDiffs ==
    [][\A v \in versions : ~v.is_checkpoint => v \in versions']_vars

\* two diffs outlive the pruning of the checkpoint written between them
C10_Witness ==
    \E f \in FileIds :
        /\ Pruned(f)
        /\ \E d \in DiffsOf(versions, f), e \in DiffsOf(versions, f) :
               /\ d.id < e.id
               /\ \A v \in versions : v.id # d.id + 1

\* C11 (as stated): a save whose content equals the reconstructed latest
\* content leaves the version log and the FileRecord exactly as before the
\* call, in every reachable state of the file.
C11_NoWriteAtAll ==
    [][last'.op = "save" =>
          \A f \in getFileByPath(files, last'.path) :
              LatestContent(versions, f.id) = {last'.content} =>
                  /\ versions' = versions
                  /\ files' = files]_vars

\* C11 (amended): a save whose content equals the reconstructed latest content
\* inserts no version; on a file that is not soft-deleted it leaves the
\* FileRecord exactly as before, and on a soft-deleted file it writes exactly
\* deleted_at = null and updated_at = now to the FileRecord.
C11_NoWriteUnlessDeleted ==
    [][last'.op = "save" =>
          \A f \in getFileByPath(files, last'.path) :
              LatestContent(versions, f.id) = {last'.content} =>
                  /\ versions' = versions
                  /\ files' = IF f.deleted_at = Null
                                 THEN files
                                 ELSE updateFile(files, f.id,
                                          [deleted_at |-> Null, updated_at |-> clock])]_vars

\* an unchanged content was saved over a soft-deleted file: the record is
\* active again in memory, and still deleted in the durable image
C11_Witness ==
    /\ last.op = "save"
    /\ last.out = "noop"
    /\ \E f \in getFileByPath(files, last.path) :
        /\ f.deleted_at = Null
        /\ \E g \in disk.files : g.id = f.id /\ g.deleted_at # Null

\* C12: a save on a path whose record is soft-deleted sets deleted_at back to
\* null on the same record (same id, one record for the path), whether or not
\* the content changed, and every timestamp recorded before still reconstructs
\* to the same content.
C12_UndeleteOnSave ==
    [][last'.op = "save" =>
          \A f \in getFileByPath(files, last'.path) :
              f.deleted_at # Null =>
                  /\ \E g \in files' : g.id = f.id /\ g.path = f.path /\ g.deleted_at = Null
                  /\ Cardinality(getFileByPath(files', last'.path)) = 1
                  /\ \A T \in TimestampsOf(versions, f.id) :
                         reconstructVersion(versions', f.id, T)
                             = reconstructVersion(versions, f.id, T)]_vars

\* C13: markDeleted(p) removes or alters no version row; on an active record
\* at p it changes deleted_at and updated_at of that record and nothing else;
\* it leaves an already-deleted record as it is; and for an untracked path it
\* changes nothing and raises no error.
C13_MarkDeletedFrame ==
    [][last'.op = "delete" =>
          /\ versions' = versions
          /\ \A f \in FileIds : \A T \in TimestampsOf(versions, f) :
                 reconstructVersion(versions', f, T) = reconstructVersion(versions, f, T)
          /\ last'.out \in {"marked", "none"}
          /\ LET found == getFileByPath(files, last'.path)
             IN  /\ found = {} => files' = files
                 /\ \A f \in found :
                        IF f.deleted_at # Null
                           THEN files' = files
                           ELSE \E g \in files' :
                                  /\ files' \ {g} = files \ {f}
                                  /\ g.id = f.id /\ g.path = f.path
                                  /\ g.created_at = f.created_at
                                  /\ g.deleted_at # Null]_vars

\* markDeleted ran on a record that was deleted at an earlier time and that
\* has versions: its deleted_at is still the earlier time
C13_Witness ==
    /\ last.op = "delete"
    /\ last.out = "none"
    /\ \E f \in getFileByPath(files, last.path) :
        /\ f.deleted_at # Null
        /\ f.deleted_at[1] < clock
        /\ DiffsOf(versions, f.id) # {}

\* every non-deleted file's latest version is a checkpoint, whichever row the
\* store returns as the latest
AllLatestCheckpoints ==
    \A f \in files : f.deleted_at = Null =>
        \A v \in getLatestVersion(versions, f.id) : v.is_checkpoint

\* C14: a daemon pass over a store in which every non-deleted file's latest
\* version is a checkpoint inserts no version, prunes none and changes no
\* FileRecord; and a daemon pass that directly follows another daemon pass,
\* with no save in between, is such a no-op.
C14_DaemonNoOp ==
    [][last'.op = "daemon" =>
          ((AllLatestCheckpoints \/ last.op = "daemon") =>
               /\ versions' = versions
               /\ files' = files)]_vars

\* C15: restore(path, T) inserts, deletes and modifies no version row; when
\* it succeeds it writes a content reconstructVersion(fileId, T) yields to
\* the external file, with modify if the file exists and create otherwise,
\* and leaves the FileRecord with deleted_at = null and every other record
\* as it was; when it throws, the store is unchanged.
C15_RestoreFrame ==
    [][last'.op = "restore" =>
          /\ versions' = versions
          /\ last'.out \in {"error", "failed", "modify", "create"}
          /\ last'.out \in {"error", "failed"} => files' = files
          /\ last'.out \in {"modify", "create"} =>
                \E f \in getFileByPath(files, last'.path) :
                    /\ last'.content \in reconstructVersion(versions, f.id, last'.ts)
                    /\ \E g \in files' :
                          /\ files' \ {g} = files \ {f}
                          /\ g.id = f.id /\ g.path = f.path
                          /\ g.deleted_at = Null]_vars

\* restore has created the file of a record that was marked as deleted, with
\* a content that is not the latest one recorded
C15_Witness ==
    /\ last.op = "restore"
    /\ last.out = "create"
    /\ \E f \in getFileByPath(files, last.path) :
        /\ f.deleted_at = Null
        /\ \E g \in disk.files : g.id = f.id /\ g.deleted_at # Null
        /\ last.content \notin LatestContent(versions, f.id)
        /\ Cardinality(VersionsOf(versions, f.id)) >= 2

\* C18: whenever save(), a daemon pass, the delete-event handler or restore()
\* returns, normally, by the no-change early return or with an error, every
\* store mutation it performed has been flushed: the durable image equals the
\* in-memory store.
C18_FlushOnAllExitPaths ==
    [][(/\ last'.op \in {"save", "daemon", "delete", "restore"}
        /\ (files' # files \/ versions' # versions))
          => disk' = Store(files', versions')]_vars

\* ------------------------------------------------------------------------
\* Event loop claims
\* ------------------------------------------------------------------------
\* the call is between its read of the latest version and its insert
InSequence(task) == task.pc \in {"compare", "consolidate"}

\* C16: per-file serialization: two save() calls on the same file, or a
\* daemon consolidation and a save() on the same file, are never both between
\* their read of the latest version and their insert.
C16_PerFileSerialization ==
    \A t, u \in Slots :
        (t # u /\ InSequence(tasks[t]) /\ InSequence(tasks[u])) =>
            \/ tasks[t].fileId # tasks[u].fileId
            \/ tasks[t].kind = "daemon" /\ tasks[u].kind = "daemon"

\* C17: the daemon never runs two overlapping passes: at most one call of
\* runSnapshotDaemon has not returned yet.
C17_NoOverlappingPasses ==
    Cardinality({t \in Slots : tasks[t].kind = "daemon"}) <= 1

\* ------------------------------------------------------------------------
\* Server claims
\* ------------------------------------------------------------------------
\* the upload requests a client may send in the current state
Requests ==
    {[token |-> t, vaultId |-> v, input |-> b]
     : t \in Tokens, v \in VaultIds, b \in Batches}

Response(rq) ==
    syncVersions(ServerDb, SyncContext(rq.token, rq.vaultId), rq.input, clock)

VaultOwned(rq) ==
    \E v \in sVaults : v.id = rq.vaultId /\ v.user_id = rq.token.userId

\* the ids of the request that the server already stores
Resubmitted(rq) ==
    {rq.input[i].id : i \in 1..Len(rq.input)} \cap {v.id : v \in sVersions}

\* the version table after the same request is sent a second time, at any
\* later time
TwiceVersions(rq) ==
    LET r1 == Response(rq)
    IN  {syncVersions(Db(sVaults, sDevices, r1.files, r1.versions),
                      SyncContext(rq.token, rq.vaultId), rq.input, now2).versions
         : now2 \in clock..MaxServerClock}

\* an upload never modifies a stored row, ids stay unique, and the same batch
\* sent twice leaves the version table of sending it once
UploadKeepsRows(rq) ==
    LET r == Response(rq)
    IN  /\ sVersions \subseteq r.versions
        /\ \A x \in r.versions, y \in r.versions : x.id = y.id => x = y
        /\ TwiceVersions(rq) = {r.versions}

\* C5 (as stated): for every upload, each submitted id that is already stored
\* comes back in `synced`, no stored row is modified or duplicated, and the
\* same batch uploaded twice leaves the same version table as uploading it once.
C5_SyncIdempotence ==
    \A rq \in Requests :
        /\ Resubmitted(rq) \subseteq Range(Response(rq).synced)
        /\ UploadKeepsRows(rq)

\* C5 (amended): for every upload to a vault that exists and belongs to the
\* authenticated user, each submitted id that is already stored comes back in
\* `synced`; for every upload whatsoever no stored row is modified or
\* duplicated, and the same batch uploaded twice leaves the same version table
\* as uploading it once.
C5_SyncIdempotenceOwned ==
    \A rq \in Requests :
        /\ VaultOwned(rq) => Resubmitted(rq) \subseteq Range(Response(rq).synced)
        /\ UploadKeepsRows(rq)

\* an owner re-sends a stored id together with a new one
C5_Witness ==
    \E rq \in Requests :
        /\ VaultOwned(rq)
        /\ Len(rq.input) = 2
        /\ Resubmitted(rq) = {rq.input[1].id}
        /\ rq.input[2].id \notin Resubmitted(rq)
        /\ Len(Response(rq).synced) = 2

\* C6: every version an upload stores is attached to a file of the vault the
\* request named, and that vault belongs to the user who uploaded it.
C6_UserIsolation ==
    \A u \in sUploaded :
        \A v \in sVersions : v.id = u.id =>
            \A f \in sFiles : f.id = v.file_id =>
                /\ f.vault_id = u.vaultId
                /\ \E w \in sVaults : w.id = f.vault_id /\ w.user_id = u.userId

\* C7: an upload to a vault that does not exist or belongs to another user
\* changes neither the files nor the versions table, reports nothing as
\* synced, and reports one error per submitted version, in order.
C7_VaultOwnershipCheck ==
    \A rq \in Requests :
        ~VaultOwned(rq) =>
            LET r == Response(rq)
            IN  /\ r.files = sFiles
                /\ r.versions = sVersions
                /\ r.synced = <<>>
                /\ Len(r.errors) = Len(rq.input)
                /\ \A i \in 1..Len(rq.input) : r.errors[i].version_id = rq.input[i].id

\* a registered user uploads two versions to the vault of another user, which
\* already holds a file
C7_Witness ==
    /\ sVersions # {}
    /\ \E rq \in Requests :
        /\ Len(rq.input) = 2
        /\ \E v \in sVaults : v.id = rq.vaultId /\ v.user_id # rq.token.userId
        /\ \E f \in sFiles : f.vault_id = rq.vaultId
        /\ DeviceKnown(sDevices, rq.token.deviceId)
        /\ Len(Response(rq).errors) = 2

\* C22: when an accepted upload carries one new version whose file_id is the
\* id of a stored file record, the version is attached to that record and no
\* file row is created, whatever the path of that record and whether or not
\* another record of the vault has the uploaded path.
C22_MergeByIdPrecedence ==
    \A rq \in Requests :
        (/\ VaultOwned(rq)
         /\ DeviceKnown(sDevices, rq.token.deviceId)
         /\ Len(rq.input) = 1
         /\ ~versionExists(sVersions, rq.input[1].id)
         /\ serverGetFileById(sFiles, rq.input[1].file_id) # {}) =>
            LET r == Response(rq)
            IN  /\ {f.id : f \in r.files} = {f.id : f \in sFiles}
                /\ Cardinality(r.files) = Cardinality(sFiles)
                /\ \A v \in r.versions :
                       v.id = rq.input[1].id => v.file_id = rq.input[1].file_id

\* ------------------------------------------------------------------------
\* Upload protocol claims
\* ------------------------------------------------------------------------
ErrorIds(r) == {r.errors[i].version_id : i \in 1..Len(r.errors)}

InputIds(r) == {r.input[i].id : i \in 1..Len(r.input)}

\* the upload went to a vault of the uploader's user
Owned(r) == \E v \in sVaults : v.id = r.vaultId /\ v.user_id = "u1"

\* the step is an upload of the uploader
UploadStep == clock' = clock /\ cVersions' = cVersions

\* C19: the batch of an upload holds every version the uploader has not marked
\* as synced; when the server answers, every submitted version is in exactly
\* one of `synced` and `errors`, the uploader marks exactly the ids in
\* `synced`, and every other id stays unsynced; in an owned vault a version
\* whose own statements succeed is stored and synced whatever happened to the
\* others; when the request fails as a whole, nothing is stored and every id
\* stays unsynced.
C19_PartialFailure ==
    [][UploadStep =>
          LET r == cLast'
          IN  /\ InputIds(r) = cUnsynced
              /\ r.status = 200 =>
                    /\ Len(r.synced) + Len(r.errors) = Len(r.input)
                    /\ Range(r.synced) \cap ErrorIds(r) = {}
                    /\ Range(r.synced) \cup ErrorIds(r) = InputIds(r)
                    /\ cUnsynced' = cUnsynced \ Range(r.synced)
                    /\ Owned(r) =>
                          \A i \in 1..Len(r.input) :
                              (/\ Bindable(r.input[i].data)
                               /\ DeviceKnown(sDevices, r.deviceId)) =>
                                  /\ r.input[i].id \in Range(r.synced)
                                  /\ versionExists(sVersions', r.input[i].id)
              /\ r.status # 200 =>
                    /\ cUnsynced' = cUnsynced
                    /\ sVersions' = sVersions
                    /\ sFiles' = sFiles]_vars

\* an upload to an owned vault in which a version failed in the store and a
\* later version of the same batch was stored; the failed one is what stays
\* unsynced
C19_Witness ==
    /\ cLast.status = 200
    /\ Owned(cLast)
    /\ \E i, j \in 1..Len(cLast.input) :
          /\ i < j
          /\ cLast.input[i].id \in ErrorIds(cLast)
          /\ cLast.input[j].id \in Range(cLast.synced)
          /\ versionExists(sVersions, cLast.input[j].id)
    /\ cUnsynced = ErrorIds(cLast)

\* the route rejects the version, or the store fails on it
Bad(v) == ~validVersion(v) \/ ~Bindable(v.data)

\* C20: in an upload to an owned vault whose batch contains one invalid or
\* failing version, every other version is stored and returned in `synced`.
C20_OneBadNeverBlocks ==
    [][UploadStep =>
          LET r == cLast'
          IN  (/\ Owned(r)
               /\ DeviceKnown(sDevices, r.deviceId)
               /\ Cardinality({i \in 1..Len(r.input) : Bad(r.input[i])}) = 1) =>
                  \A i \in 1..Len(r.input) :
                      ~Bad(r.input[i]) =>
                          /\ r.input[i].id \in Range(r.synced)
                          /\ versionExists(sVersions', r.input[i].id)]_vars

\* ------------------------------------------------------------------------
\* HTTP claims
\* ------------------------------------------------------------------------
\* the step answers a request to the route
Answers(routes) == clock' = clock /\ hLast'.route \in routes

\* the body lacks vault_id, or versions is not an array, or an item fails
\* the field validation
Malformed(body) ==
    \/ body.vault_id = Null
    \/ ~body.is_array
    \/ \E i \in 1..Len(body.versions) : ~validVersion(body.versions[i])

\* C21: a POST /sync/versions of an authenticated caller whose body lacks
\* vault_id, whose versions is not an array, or in which an item fails the
\* field validation is answered with a status from 400 to 499 and inserts or
\* updates no file row and no version row.
C21_ValidationBeforeMutation ==
    [][(/\ Answers({"POST /sync/versions"})
        /\ authMiddleware(hLast'.header) # Null
        /\ Malformed(hLast'.body))
          => /\ hLast'.status \in 400..499
             /\ sFiles' = sFiles
             /\ sVersions' = sVersions]_vars

\* C25: a request to /vaults or /sync/versions without a valid Bearer token,
\* or whose verified token lacks sub or device_id, is answered with status 401
\* as the client sees it, and the route handler does not run: it reads and
\* writes nothing in the store.
C25_AuthenticationGate ==
    [][(/\ Answers({"GET /vaults", "POST /vaults", "POST /sync/versions"})
        /\ authMiddleware(hLast'.header) = Null)
          => /\ hLast'.status = 401
             /\ ~hLast'.handled
             /\ UNCHANGED serverVars]_vars

\* ------------------------------------------------------------------------
\* Client authentication claims
\* ------------------------------------------------------------------------
InCall == cAuth.pc \in {"request", "refresh", "saving", "retry", "clearing"}

\* refreshAccessToken returns false in this step
RefreshFails == cAuth.pc \in {"request", "refresh", "saving"} /\ cAuth'.pc = "clearing"

C23_WitnessRelogin ==
    cAuth.pc = "done" /\ cAuth.outcome = "relogin" /\ cAuth.refreshes = 1
        /\ Cleared(cAuth)

\* a poll iteration is started by the interval timer
TimerStarts ==
    cPoll'.requests = cPoll.requests + 1 /\ cPoll'.timer = cPoll.timer

\* C24: once a poll iteration has stored tokens or failed, or stop() was
\* called, no poll iteration is started by the timer; when the iterations
\* that ended the polling have returned, pollingInterval is null.
C24_PollCancellation ==
    [][/\ TimerStarts => ~cPoll.ended
       /\ cPoll'.ended /\ cPoll'.saving = 0 => cPoll'.timer = 0]_vars

\* the part that holds: polling is over as soon as an iteration has failed
\* or stop() was called, and when a successful iteration has returned
C24_ClearedOnReturn ==
    cPoll.ended /\ cPoll.saving = 0 => cPoll.timer = 0

\* ------------------------------------------------------------------------
\* Interval-checkpoint claims
\* ------------------------------------------------------------------------
\* the content save() was given for a stored version, and the interval then
SavedAs(v) ==
    CHOOSE h \in iSaved : h.file_id = v.file_id /\ h.version_num = v.version_num

LatestContentByNum(f) ==
    reconstructVersionByNum(iVersions, f.id,
        (CHOOSE v \in getLatestVersionByNum(iVersions, f.id) : TRUE).version_num)

\* C26: a save whose content equals the reconstructed latest content stores
\* no version, whatever the checkpoint interval.
C26_SaveIdempotent ==
    \A f \in iFiles : \A c \in Contents :
        getLatestVersionByNum(iVersions, f.id) # {} /\ LatestContentByNum(f) = <<c>>
            => saveByNum(iFiles, iVersions, iInterval, f.path, c).versions = iVersions

\* the part that holds: the save is skipped when the next version is a diff
C26_SkippedWhenDiff ==
    \A f \in iFiles : \A c \in Contents :
        /\ getLatestVersionByNum(iVersions, f.id) # {}
        /\ LatestContentByNum(f) = <<c>>
        /\ ~isCheckpointByNum(Cardinality(VersionsOf(iVersions, f.id)) + 1, iInterval)
        => saveByNum(iFiles, iVersions, iInterval, f.path, c).versions = iVersions

\* C27: version k is a checkpoint holding the full content iff k = 1 or k is
\* a multiple of the checkpoint interval of its save; every other version is
\* the diff from the reconstructed content of version k - 1 to the saved
\* content; the version numbers of a file are 1..n.
C27_CheckpointPlacement ==
    /\ \A f \in iFiles :
          {v.version_num : v \in VersionsOf(iVersions, f.id)}
              = 1..Cardinality(VersionsOf(iVersions, f.id))
    /\ \A v \in iVersions :
          LET h == SavedAs(v)
              previous == reconstructVersionByNum(iVersions, v.file_id,
                                                  v.version_num - 1)
          IN  /\ v.is_checkpoint <=>
                    (v.version_num = 1 \/ v.version_num % h.interval = 0)
              /\ v.is_checkpoint => v.data = <<h.content>>
              /\ ~v.is_checkpoint =>
                    /\ previous # Null
                    /\ v.data = patch_toText(patch_make(previous[1], h.content))
              /\ reconstructVersionByNum(iVersions, v.file_id, v.version_num)
                    = <<h.content>>

\* a file with a checkpoint at a multiple of the interval and diffs around it
C27_Witness ==
    \E v, w, x \in iVersions :
        /\ v.version_num = 2 /\ ~v.is_checkpoint
        /\ w.version_num = 3 /\ w.is_checkpoint
        /\ x.version_num = 4 /\ ~x.is_checkpoint

\* C28: reconstructing any stored version applies at most checkpointInterval
\* patches, for the interval that is currently configured.
C28_BoundedReconstruction ==
    \A v \in iVersions :
        PatchesApplied(iVersions, v.file_id, v.version_num) <= iInterval

\* the part that holds: the bound for files saved under the current interval
C28_UnchangedInterval ==
    \A v \in iVersions :
        (\A h \in iSaved : h.file_id = v.file_id => h.interval = iInterval)
            => PatchesApplied(iVersions, v.file_id, v.version_num) < iInterval
                  \/ PatchesApplied(iVersions, v.file_id, v.version_num) = 0

\* ------------------------------------------------------------------------
\* Local engine claims: change detection and reconstruction failure
\* ------------------------------------------------------------------------
SaveStep == last'.op = "save" /\ clock' = clock

\* C29: hasChanged answers true when the path has no record or the file has
\* no version, and otherwise whether the content differs from the
\* reconstructed latest content; a save that follows an answer of false
\* inserts no version.
C29_HasChanged ==
    /\ [](\A p \in Paths : \A c \in Contents :
            LET found == getFileByPath(files, p)
                file == CHOOSE f \in found : TRUE
                answers == hasChanged(files, versions, p, c)
            IN  /\ answers # {}
                /\ found = {} \/ VersionsOf(versions, file.id) = {}
                      => answers = {TRUE}
                /\ found # {} /\ VersionsOf(versions, file.id) # {}
                      => answers = {c # x : x \in LatestContent(versions, file.id)})
    /\ [][SaveStep =>
            LET answers == hasChanged(files, versions, last'.path, last'.content)
            IN  /\ answers = {FALSE} => versions' = versions
                /\ last'.out = "noop" => FALSE \in answers /\ versions' = versions
                /\ last'.out \in {"diff", "checkpoint"} => TRUE \in answers]_vars

\* a save of the content that hasChanged reports as unchanged has run
C29_Witness ==
    /\ last.op = "save" /\ last.out = "noop"
    /\ hasChanged(files, versions, last.path, last.content) = {FALSE}

RestoreStep == last'.op = "restore" /\ clock' = clock

\* C30: reconstructVersion(fileId, T) throws exactly when the file has no
\* checkpoint with created_at <= T (unknown file, no versions, T before the
\* first version); a restore that fails this way leaves the store as it was.
C30_ReconstructFails ==
    /\ [](\A fileId \in FileIds : \A T \in 0..MaxClock :
            reconstructVersion(versions, fileId, T) = {}
                <=> ~\E v \in versions : /\ v.file_id = fileId
                                         /\ v.is_checkpoint
                                         /\ v.created_at <= T)
    /\ [][RestoreStep /\ last'.out = "error"
            => files' = files /\ versions' = versions /\ disk' = disk]_vars
    /\ [][RestoreStep =>
            (last'.out = "error" <=>
                \A f \in getFileByPath(files, last'.path) :
                    reconstructVersion(versions, f.id, last'.ts) = {})]_vars

\* a restore to a time before the first version of a tracked file has failed
C30_Witness ==
    /\ last.op = "restore" /\ last.out = "error"
    /\ \E f \in getFileByPath(files, last.path) :
          /\ VersionsOf(versions, f.id) # {}
          /\ \A v \in VersionsOf(versions, f.id) : last.ts < v.created_at

\* ------------------------------------------------------------------------
\* Local engine claims: consolidation, restore, rename
\* ------------------------------------------------------------------------
DaemonStep == last'.op = "daemon" /\ clock' = clock

\* the checkpoints a daemon step inserted for the file
Consolidated(fileId) ==
    {v \in VersionsOf(versions', fileId) : v \notin versions}

\* C31: the checkpoint a daemon pass inserts for a file holds what
\* reconstructing the previous latest version returns, is stamped strictly
\* after the diff it consolidates, and reconstructing at the new latest
\* timestamp returns the content from before the pass.
C31_ConsolidationPreserves ==
    [][DaemonStep =>
         \A fileId \in FileIds : \A cp \in Consolidated(fileId) :
             /\ cp.is_checkpoint
             /\ cp.data[1] \in LatestContent(versions, fileId)
             /\ \A d \in getLatestVersion(versions, fileId) :
                   ~d.is_checkpoint => d.created_at < cp.created_at
             /\ LatestContent(versions', fileId) \subseteq LatestContent(versions, fileId)
             /\ LatestContent(versions', fileId) # {}]_vars

\* the part that holds: the checkpoint holds a content the previous latest
\* version reconstructs to, and is stamped at or after the consolidated diff
C31_NotBefore ==
    [][DaemonStep =>
         \A fileId \in FileIds : \A cp \in Consolidated(fileId) :
             /\ cp.is_checkpoint
             /\ cp.data[1] \in LatestContent(versions, fileId)
             /\ \A d \in getLatestVersion(versions, fileId) :
                   d.created_at <= cp.created_at]_vars

\* the write-back of a restore re-enters through save with the restored content
ReenteringSave ==
    /\ last.op = "restore" /\ last.out \in {"modify", "create"}
    /\ SaveStep
    /\ last'.path = last.path /\ last'.content = last.content

\* what restore and the re-entering save leave of the history of the file
HistoryKept(fileId) ==
    /\ versions \subseteq versions'
    /\ Cardinality(versions' \ versions) <= 1
    /\ \A v \in VersionsOf(versions, fileId) :
          reconstructVersion(versions', fileId, v.created_at)
              = reconstructVersion(versions, fileId, v.created_at)
    /\ LatestContent(versions', fileId) = {last.content}
    /\ LatestContent(versions, fileId) = {last.content} => versions' = versions

\* C32: after restore(path, T) and the re-entering save of the restored
\* content, every timestamp recorded before still reconstructs to the same
\* content, no earlier version is gone, at most one version is added (none
\* when the file already had that content), and the latest content is the
\* restored one.
C32_RestoreKeepsHistory ==
    [][ReenteringSave =>
          \A f \in getFileByPath(files, last.path) : HistoryKept(f.id)]_vars

\* no two versions of a file share a created_at, and the clock has moved on
\* since the last of them
Fresh ==
    /\ \A v, w \in versions :
          v.file_id = w.file_id /\ v.created_at = w.created_at => v = w
    /\ \A v \in versions : v.created_at < clock

\* the part that holds: the same, when the save runs in a later millisecond
\* than every stored version and these have pairwise different timestamps
C32_WhenFresh ==
    [][ReenteringSave /\ Fresh =>
          \A f \in getFileByPath(files, last.path) : HistoryKept(f.id)]_vars

\* every row the store may return as the latest version of the file is a diff
LatestIsDiff(vs, fileId) ==
    /\ getLatestVersion(vs, fileId) # {}
    /\ \A v \in getLatestVersion(vs, fileId) : ~v.is_checkpoint

\* C33: a daemon pass leaves the versions of every soft-deleted file as they
\* are, even when its latest version is a diff, and inserts a checkpoint for
\* every live file whose latest version is a diff.
C33_DaemonSkipsDeleted ==
    [][DaemonStep =>
         \A f \in files :
            /\ f.deleted_at # Null =>
                  VersionsOf(versions', f.id) = VersionsOf(versions, f.id)
            /\ f.deleted_at = Null /\ LatestIsDiff(versions, f.id) =>
                  Consolidated(f.id) # {}
            /\ Consolidated(f.id) # {} =>
                  f.deleted_at = Null
                      /\ \E v \in getLatestVersion(versions, f.id) : ~v.is_checkpoint]_vars

\* a pass has run over a soft-deleted file whose latest version is a diff
C33_Witness ==
    /\ last.op = "daemon"
    /\ \E f \in files : f.deleted_at # Null /\ LatestIsDiff(versions, f.id)

\* a pass has consolidated a live file
C33_WitnessConsolidated ==
    /\ last.op = "daemon" /\ last.out = "created"
    /\ \E f \in files : f.deleted_at = Null /\ daemonCp[f.id] # 0

\* ------------------------------------------------------------------------
\* Event loop claims: stale checkpoints, the range of a reconstruction
\* ------------------------------------------------------------------------
\* no save and no daemon pass is suspended at `await reconstructVersion`
Completed == \A t \in Slots : tasks[t].pc \notin {"compare", "consolidate"}

\* the content of the save that inserted last (ids are handed out in order)
LastSavedContent(fileId) ==
    LET own == VersionsOf(versions, fileId)
        saves == {v \in own : ~v.is_checkpoint \/ v \in FirstEver(versions, fileId)}
        newest == CHOOSE v \in saves : \A w \in saves : w.id <= v.id
    IN  IF newest.is_checkpoint THEN newest.data[1] ELSE newest.data[3]

\* the versions written by saves carry timestamps in the order of insertion
SavesInOrder(fileId) ==
    \A v, w \in VersionsOf(versions, fileId) :
        /\ ~v.is_checkpoint \/ v \in FirstEver(versions, fileId)
        /\ ~w.is_checkpoint \/ w \in FirstEver(versions, fileId)
        /\ v.id < w.id
        => v.created_at < w.created_at

\* C34: when the interleaved saves and daemon passes have completed,
\* reconstructing the latest version of a file returns the content of the
\* save that inserted last (stated for files whose saves did not share a
\* millisecond).
C34_NoStaleCheckpoint ==
    Completed =>
        \A f \in files :
            VersionsOf(versions, f.id) # {} /\ SavesInOrder(f.id) =>
                LatestContent(versions, f.id) = {LastSavedContent(f.id)}

\* the rows reconstructVersion fetches after the seed checkpoint and folds
FoldedRows(vs, fileId, targetTimestamp) ==
    UNION {IF checkpoint.created_at < targetTimestamp
              THEN getVersionsInRange(vs, fileId, checkpoint.created_at + 1,
                                      targetTimestamp)
              ELSE {}
           : checkpoint \in getNearestCheckpoint(vs, fileId, targetTimestamp)}

\* C36: in every reachable state, for every file and target timestamp, the
\* rows reconstructVersion folds after its seed checkpoint are diff rows: the
\* range it fetches never contains a checkpoint.
C36_FoldsDiffsOnly ==
    \A f \in files, t \in 1..MaxClock :
        \A v \in FoldedRows(versions, f.id, t) : ~v.is_checkpoint

\* a reconstruction seeded by a checkpoint of the daemon folds a diff
C36_Witness ==
    \E f \in files, t \in 1..MaxClock :
        /\ FoldedRows(versions, f.id, t) # {}
        /\ \E c \in getNearestCheckpoint(versions, f.id, t) :
               c \notin FirstEver(versions, f.id)

\* ------------------------------------------------------------------------
\* Local engine claims: rename over all the notes of the vault
\* ------------------------------------------------------------------------
RenameStep == last'.op = "rename" /\ clock' = clock

\* the record at oldPath before the step is the record at newPath after it,
\* with its versions, and no record is left at oldPath
HistoryMoved(oldPath, newPath) ==
    \A f \in getFileByPath(files, oldPath) :
        /\ \A g \in getFileByPath(files', newPath) : g.id = f.id
        /\ getFileByPath(files', newPath) # {}
        /\ getFileByPath(files', oldPath) = {}
        /\ VersionsOf(versions', f.id) = VersionsOf(versions, f.id)

\* C37: after the rename of oldPath to newPath the record that was at oldPath
\* (same id, all its versions) is the record at newPath and no record remains
\* at oldPath, whatever the store holds, a record at newPath included.
C37_RenameKeepsHistory ==
    [][RenameStep => HistoryMoved(last'.path, last'.content)]_vars

\* the same, for a rename to a path no other record holds
C37_WhenFree ==
    [][RenameStep /\ getFileByPath(files, last'.content) = {}
          => HistoryMoved(last'.path, last'.content)]_vars

\* ------------------------------------------------------------------------
\* Local engine claims: a restore that fails
\* ------------------------------------------------------------------------
\* restore throws before it writes: the path has no record, or the file has
\* no checkpoint at or before the target
FailsEarly(filePath, targetTimestamp) ==
    \A f \in getFileByPath(files, filePath) :
        reconstructVersion(versions, f.id, targetTimestamp) = {}

\* C38: a restore that fails, because the path is untracked, because no
\* checkpoint lies at or before the target, or because the write to the vault
\* fails, changes no row of the store, deleted_at included; in the first two
\* cases nothing is handed to the vault.
C38_RestoreFailsClean ==
    /\ [][RestoreStep /\ last'.out \in {"error", "failed"}
            => files' = files /\ versions' = versions /\ disk' = disk]_vars
    /\ [][RestoreStep /\ FailsEarly(last'.path, last'.ts)
            => last'.out = "error" /\ last'.content = ""]_vars

\* the write of a restore for a record marked as deleted has failed
C38_Witness ==
    /\ last.op = "restore" /\ last.out = "failed"
    /\ \E f \in getFileByPath(files, last.path) : f.deleted_at # Null

\* ------------------------------------------------------------------------
\* Client authentication claims: poll iterations of a cancelled flow
\* ------------------------------------------------------------------------
\* an iteration that was in flight at the last stop() or startTokenPolling
\* resumes
OldResumes ==
    cPoll'.old < cPoll.old \/ cPoll'.oldSaving < cPoll.oldSaving

\* C40: a poll iteration that was in flight when stop() was called or a
\* newer startTokenPolling replaced the poll stores no accessToken,
\* refreshToken or deviceId when it resumes, and does not clear the timer of
\* the newer poll.
C40_NoWriteAfterCancel ==
    [][OldResumes =>
          /\ cAuth'.accessToken = cAuth.accessToken
          /\ cAuth'.refreshToken = cAuth.refreshToken
          /\ cAuth'.deviceId = cAuth.deviceId
          /\ cPoll'.timer = cPoll.timer]_vars

\* the first half: no credential is stored
C40_NoCredentialWrite ==
    [][OldResumes =>
          /\ cAuth'.accessToken = cAuth.accessToken
          /\ cAuth'.refreshToken = cAuth.refreshToken
          /\ cAuth'.deviceId = cAuth.deviceId]_vars

\* ------------------------------------------------------------------------
\* Upload protocol claims: the vault of the local vault name
\* ------------------------------------------------------------------------
\* the vaults of user u1 that carry the local vault name
Named == {v \in getVaultsByUserId(sVaults, "u1") : v.name = VaultName}

\* C39: after any interleaving of the sync passes of the devices of one
\* user, the server holds at most one vault of that user with the local
\* vault name, and the vaultId cached by every device that has completed a
\* pass is the id of that vault.
C39_OneVaultPerName ==
    /\ Cardinality(Named) <= 1
    /\ \A d \in VaultDevices :
          dVault[d].pc = "idle" /\ dVault[d].passes > 0
              => \E v \in Named : v.id = dVault[d].vaultId

\* ------------------------------------------------------------------------
\* Upload protocol claims: eventual upload
\* ------------------------------------------------------------------------
Uploaded(i) == i \notin cUnsynced /\ \E v \in sVersions : v.id = i

\* C35: with recurring sync passes, valid credentials and a server that
\* answers, every version the uploader holds, an empty text included, is
\* eventually stored on the server and marked as synced.
C35_EventualUpload ==
    \A i \in 1..MaxClientVersions :
        (i \in cUnsynced /\ cVersions[i] \in {"x", ""}) ~> Uploaded(i)

====
